---- MODULE Spec2Model ----
(***************************************************************************)
(* Model of the Retell hotel agent backend: the German date parser         *)
(* (parseDateSmart, nextWeekday), the rule based slot extractor            *)
(* (extractWithRules, parseDateAny) and the availability check             *)
(* (computeCheckAvailability and the /retell/tool/check_availability       *)
(* handler).                                                               *)
(*                                                                         *)
(* Text is a sequence of characters.  A character is a one-letter string;  *)
(* the letters outside ASCII are written "a_uml" (a-umlaut), "o_uml",      *)
(* "u_uml", "sz" (sharp s), and "comb" is the combining diaeresis U+0308   *)
(* that Unicode decomposition (NFD / NFKD) splits off an umlaut.           *)
(*                                                                         *)
(* A calendar date is a day number (days since 1970-01-01); a JavaScript   *)
(* Date is an instant, modelled in minutes of local wall-clock time, the   *)
(* server's timezone being a fixed offset tz (minutes east of UTC).        *)
(***************************************************************************)
EXTENDS Integers, Sequences, FiniteSets, TLC

VARIABLES
  today,    \* local calendar day of the server clock (day number)
  minute,   \* local minute of the day of the server clock
  tz,       \* timezone offset of the server, minutes east of UTC
  env,      \* process.env, as the server read it when it started
  op,       \* the operation being answered ("idle" between requests)
  req,      \* its input
  res       \* its result

vars == <<today, minute, tz, env, op, req, res>>

\* const name = value; ...: the rest of a function, F, with the value v that a
\* const of the source names.
With(v, F(_)) == F(v)

-----------------------------------------------------------------------------
(* Calendar arithmetic: what Date.UTC / new Date(y, m, d) and the getters   *)
(* compute (proleptic Gregorian calendar, overflowing days and months).    *)

\* Day number of year y, month m (1..12), day d; d may overflow the month.
DaysFromCivil(y, m, d) ==
  With(IF m <= 2 THEN y - 1 ELSE y, LAMBDA yy :
  With(yy \div 400, LAMBDA era :
  With(yy - era * 400, LAMBDA yoe :
  With(IF m > 2 THEN m - 3 ELSE m + 9, LAMBDA mp :
  With((153 * mp + 2) \div 5 + d - 1, LAMBDA doy :
  With(yoe * 365 + yoe \div 4 - yoe \div 100 + doy, LAMBDA doe :
      era * 146097 + doe - 719468))))))

\* MakeDay of ECMAScript: month index m0 (0-based) may overflow the year.
MakeDay(y, m0, d) == DaysFromCivil(y + (m0 \div 12), (m0 % 12) + 1, d)

\* Year, month, day of a day number.
CivilFromDays(n) ==
  With(n + 719468, LAMBDA z :
  With(z \div 146097, LAMBDA era :
  With(z - era * 146097, LAMBDA doe :
  With((doe - doe \div 1460 + doe \div 36524 - doe \div 146096) \div 365, LAMBDA yoe :
  With(doe - (365 * yoe + yoe \div 4 - yoe \div 100), LAMBDA doy :
  With((5 * doy + 2) \div 153, LAMBDA mp :
  With(doy - (153 * mp + 2) \div 5 + 1, LAMBDA d :
  With(IF mp < 10 THEN mp + 3 ELSE mp - 9, LAMBDA m :
  With(yoe + era * 400 + (IF m <= 2 THEN 1 ELSE 0), LAMBDA y :
      [y |-> y, m |-> m, d |-> d])))))))))

\* Date.prototype.getDay: 0 = Sunday; 1970-01-01 was a Thursday.
getDay(n) == (n + 4) % 7

-----------------------------------------------------------------------------
(* Characters and text.                                                     *)

DigitChars == <<"0", "1", "2", "3", "4", "5", "6", "7", "8", "9">>
LowerChars == <<"a", "b", "c", "d", "e", "f", "g", "h", "i", "j", "k", "l", "m",
                "n", "o", "p", "q", "r", "s", "t", "u", "v", "w", "x", "y", "z",
                "a_uml", "o_uml", "u_uml">>
UpperChars == <<"A", "B", "C", "D", "E", "F", "G", "H", "I", "J", "K", "L", "M",
                "N", "O", "P", "Q", "R", "S", "T", "U", "V", "W", "X", "Y", "Z",
                "A_UML", "O_UML", "U_UML">>

Range(f) == {f[i] : i \in DOMAIN f}
DigitSet == Range(DigitChars)
IsDigit(c) == c \in DigitSet
AsciiLetters == {LowerChars[i] : i \in 1..26}
IsAsciiLetter(c) == c \in AsciiLetters
IsSpace(c) == c = " "
\* The character class [a-z a-umlaut o-umlaut u-umlaut sharp-s .] of the patterns.
WordChars == AsciiLetters \cup {"a_uml", "o_uml", "u_uml", "sz", "."}
IsWordChar(c) == c \in WordChars

DigitValues == [c \in DigitSet |-> (CHOOSE i \in 1..10 : DigitChars[i] = c) - 1]
DigitVal(c) == DigitValues[c]

\* String.prototype.toLowerCase, one character.
LowerOf == [c \in Range(UpperChars) |->
              LowerChars[CHOOSE i \in DOMAIN UpperChars : UpperChars[i] = c]]
LowerChar(c) == IF c \in DOMAIN LowerOf THEN LowerOf[c] ELSE c

toLowerCase(s) == [i \in DOMAIN s |-> LowerChar(s[i])]

\* Canonical decomposition of one character: an umlaut is its base letter
\* followed by the combining diaeresis; everything else is unchanged.
Decompose(c) ==
  CASE c = "a_uml" -> <<"a", "comb">>
    [] c = "o_uml" -> <<"o", "comb">>
    [] c = "u_uml" -> <<"u", "comb">>
    [] c = "A_UML" -> <<"A", "comb">>
    [] c = "O_UML" -> <<"O", "comb">>
    [] c = "U_UML" -> <<"U", "comb">>
    [] OTHER -> <<c>>

RECURSIVE NFD(_)
\* String.prototype.normalize("NFD") (and "NFKD": the same on these characters).
NFD(s) == IF s = <<>> THEN <<>> ELSE Decompose(Head(s)) \o NFD(Tail(s))

\* replace(/[\u0300-\u036f]/g, ""): drop the combining marks.
StripAccents(s) == SelectSeq(s, LAMBDA c : c # "comb")

RECURSIVE CollapseWs(_)
\* replace(/\s+/g, " "): a run of whitespace becomes one blank.
CollapseWs(s) ==
  IF s = <<>> THEN <<>>
  ELSE IF IsSpace(Head(s))
       THEN IF Tail(s) # <<>> /\ IsSpace(Head(Tail(s)))
            THEN CollapseWs(Tail(s))
            ELSE <<" ">> \o CollapseWs(Tail(s))
       ELSE <<Head(s)>> \o CollapseWs(Tail(s))

RECURSIVE TrimLeft(_)
TrimLeft(s) == IF s # <<>> /\ IsSpace(Head(s)) THEN TrimLeft(Tail(s)) ELSE s

RECURSIVE TrimRight(_)
TrimRight(s) ==
  IF s # <<>> /\ IsSpace(s[Len(s)]) THEN TrimRight(SubSeq(s, 1, Len(s) - 1)) ELSE s

\* String.prototype.trim
trim(s) == TrimRight(TrimLeft(s))

RECURSIVE ReplacePair(_, _, _, _)
\* replace(/ab/g, r) for a two-character pattern: left to right, no overlap.
ReplacePair(s, a, b, r) ==
  IF Len(s) < 2 THEN s
  ELSE IF s[1] = a /\ s[2] = b
       THEN r \o ReplacePair(SubSeq(s, 3, Len(s)), a, b, r)
       ELSE <<s[1]>> \o ReplacePair(Tail(s), a, b, r)

RECURSIVE ReplaceChar(_, _, _)
\* replace(/c/g, r) for a one-character pattern.
ReplaceChar(s, c, r) ==
  IF s = <<>> THEN <<>>
  ELSE (IF Head(s) = c THEN r ELSE <<Head(s)>>) \o ReplaceChar(Tail(s), c, r)

\* String.prototype.includes
Includes(s, key) ==
  \E i \in 1..(Len(s) - Len(key) + 1) : SubSeq(s, i, i + Len(key) - 1) = key

\* s has the literal lit at position i.
StartsAt(s, i, lit) ==
  /\ i >= 1
  /\ i + Len(lit) - 1 <= Len(s)
  /\ SubSeq(s, i, i + Len(lit) - 1) = lit

RECURSIVE DigitRun(_, _)
\* Length of the longest run of digits starting at s[i]  (\d+).
DigitRun(s, i) == IF i <= Len(s) /\ IsDigit(s[i]) THEN 1 + DigitRun(s, i + 1) ELSE 0

RECURSIVE SpaceRun(_, _)
\* Length of the longest run of whitespace starting at s[i]  (\s*).
SpaceRun(s, i) == IF i <= Len(s) /\ IsSpace(s[i]) THEN 1 + SpaceRun(s, i + 1) ELSE 0

RECURSIVE WordRun(_, _)
\* Length of the longest run of [a-z umlauts sharp-s .] starting at s[i].
WordRun(s, i) == IF i <= Len(s) /\ IsWordChar(s[i]) THEN 1 + WordRun(s, i + 1) ELSE 0

RECURSIVE LetterRun(_, _)
\* Length of the longest run of [a-z] starting at s[i].
LetterRun(s, i) ==
  IF i <= Len(s) /\ IsAsciiLetter(s[i]) THEN 1 + LetterRun(s, i + 1) ELSE 0

RECURSIVE parseIntDigits(_)
\* parseInt / Number / unary + on a string of decimal digits.
parseIntDigits(s) ==
  IF s = <<>> THEN 0
  ELSE 10 * parseIntDigits(SubSeq(s, 1, Len(s) - 1)) + DigitVal(s[Len(s)])

RECURSIVE NatToText(_)
\* String(n) for a natural number n.
NatToText(n) ==
  IF n < 10 THEN <<DigitChars[n + 1]>>
  ELSE NatToText(n \div 10) \o <<DigitChars[(n % 10) + 1]>>

\* pad2: String(n).padStart(2, "0")
pad2(n) == IF Len(NatToText(n)) < 2 THEN <<"0">> \o NatToText(n) ELSE NatToText(n)

\* `${y}-${pad2(m)}-${pad2(d)}`
YmdText(y, m, d) == NatToText(y) \o <<"-">> \o pad2(m) \o <<"-">> \o pad2(d)

\* ymd(date): the local calendar date of a day number, as YYYY-MM-DD.
ymd(n) == LET c == CivilFromDays(n) IN YmdText(c.y, c.m, c.d)

\* addDays(date, n): setDate(getDate() + n) in local time.
addDays(n, k) == n + k

-----------------------------------------------------------------------------
(* Character codes, for the comparison of strings with < (UTF-16 units).    *)

CharCodes ==
  [c \in DigitSet |-> 48 + DigitVal(c)] @@
  [c \in AsciiLetters |-> 96 + (CHOOSE i \in 1..26 : LowerChars[i] = c)] @@
  [c \in {UpperChars[i] : i \in 1..26} |-> 64 + (CHOOSE i \in 1..26 : UpperChars[i] = c)] @@
  (" " :> 32) @@ ("-" :> 45) @@ ("." :> 46) @@ ("/" :> 47) @@ ("_" :> 95) @@
  ("A_UML" :> 196) @@ ("O_UML" :> 214) @@ ("U_UML" :> 220) @@ ("sz" :> 223) @@
  ("a_uml" :> 228) @@ ("o_uml" :> 246) @@ ("u_uml" :> 252) @@ ("comb" :> 776)
CharCode(c) == CharCodes[c]

RECURSIVE TextLess(_, _)
\* a < b on strings: lexicographic by character code, a proper prefix is less.
TextLess(a, b) ==
  IF b = <<>> THEN FALSE
  ELSE IF a = <<>> THEN TRUE
  ELSE IF CharCode(Head(a)) # CharCode(Head(b))
       THEN CharCode(Head(a)) < CharCode(Head(b))
       ELSE TextLess(Tail(a), Tail(b))

-----------------------------------------------------------------------------
(* src/server.js (second server of the file): CONFIG, LOOKUP_TABLES, utils. *)

minYear == 1900
maxYear == 2100
maxGuests == 10
maxNights == 30

\* Map.get on a table given as a sequence of <<key, value>>; Undefined if absent.
\* The undefined of Map.get: a number outside every table's values.
Undefined == -1
MapGet(table, key) ==
  IF \E i \in DOMAIN table : table[i][1] = key
  THEN table[CHOOSE i \in DOMAIN table : table[i][1] = key][2]
  ELSE Undefined

monthsDE == <<
  <<<<"j", "a", "n">>, 1>>, <<<<"j", "a_uml", "n">>, 1>>, <<<<"j", "a", "n", "u", "a", "r">>, 1>>,
  <<<<"f", "e", "b">>, 2>>, <<<<"f", "e", "b", "r", "u", "a", "r">>, 2>>,
  <<<<"m", "a", "r">>, 3>>, <<<<"m", "a_uml", "r">>, 3>>, <<<<"m", "r", "z">>, 3>>, <<<<"m", "a", "e", "r", "z">>, 3>>, <<<<"m", "a_uml", "r", "z">>, 3>>,
  <<<<"a", "p", "r">>, 4>>, <<<<"a", "p", "r", "i", "l">>, 4>>,
  <<<<"m", "a", "i">>, 5>>,
  <<<<"j", "u", "n">>, 6>>, <<<<"j", "u", "n", "i">>, 6>>,
  <<<<"j", "u", "l">>, 7>>, <<<<"j", "u", "l", "i">>, 7>>,
  <<<<"a", "u", "g">>, 8>>, <<<<"a", "u", "g", "u", "s", "t">>, 8>>,
  <<<<"s", "e", "p">>, 9>>, <<<<"s", "e", "p", "t">>, 9>>, <<<<"s", "e", "p", "t", "e", "m", "b", "e", "r">>, 9>>,
  <<<<"o", "k", "t">>, 10>>, <<<<"o", "k", "t", "o", "b", "e", "r">>, 10>>,
  <<<<"n", "o", "v">>, 11>>, <<<<"n", "o", "v", "e", "m", "b", "e", "r">>, 11>>,
  <<<<"d", "e", "z">>, 12>>, <<<<"d", "e", "z", "e", "m", "b", "e", "r">>, 12>>, <<<<"d", "e", "c", "e", "m", "b", "e", "r">>, 12>> >>

weekdaysDE == <<
  <<<<"s", "o", "n", "n", "t", "a", "g">>, 0>>, <<<<"s", "o">>, 0>>, <<<<"s", "o", ".">>, 0>>,
  <<<<"m", "o", "n", "t", "a", "g">>, 1>>, <<<<"m", "o">>, 1>>, <<<<"m", "o", ".">>, 1>>,
  <<<<"d", "i", "e", "n", "s", "t", "a", "g">>, 2>>, <<<<"d", "i">>, 2>>, <<<<"d", "i", ".">>, 2>>,
  <<<<"m", "i", "t", "t", "w", "o", "c", "h">>, 3>>, <<<<"m", "i">>, 3>>, <<<<"m", "i", ".">>, 3>>,
  <<<<"d", "o", "n", "n", "e", "r", "s", "t", "a", "g">>, 4>>, <<<<"d", "o">>, 4>>, <<<<"d", "o", ".">>, 4>>,
  <<<<"f", "r", "e", "i", "t", "a", "g">>, 5>>, <<<<"f", "r">>, 5>>, <<<<"f", "r", ".">>, 5>>,
  <<<<"s", "a", "m", "s", "t", "a", "g">>, 6>>, <<<<"s", "a">>, 6>>, <<<<"s", "a", ".">>, 6>>, <<<<"s", "o", "n", "n", "a", "b", "e", "n", "d">>, 6>> >>

numberWords == <<
  <<<<"e", "i", "n", "s">>, 1>>, <<<<"e", "i", "n", "e">>, 1>>, <<<<"e", "i", "n", "e", "n">>, 1>>, <<<<"e", "i", "n", "e", "m">>, 1>>,
  <<<<"e", "i", "n", "e", "r">>, 1>>, <<<<"e", "i", "n">>, 1>>,
  <<<<"z", "w", "e", "i">>, 2>>, <<<<"d", "r", "e", "i">>, 3>>, <<<<"v", "i", "e", "r">>, 4>>, <<<<"f", "u_uml", "n", "f">>, 5>>, <<<<"f", "u", "n", "f">>, 5>>,
  <<<<"s", "e", "c", "h", "s">>, 6>>, <<<<"s", "i", "e", "b", "e", "n">>, 7>>, <<<<"a", "c", "h", "t">>, 8>>, <<<<"n", "e", "u", "n">>, 9>>, <<<<"z", "e", "h", "n">>, 10>>,
  <<<<"e", "l", "f">>, 11>>, <<<<"z", "w", "o_uml", "l", "f">>, 12>>, <<<<"z", "w", "o", "l", "f">>, 12>>, <<<<"d", "r", "e", "i", "z", "e", "h", "n">>, 13>>,
  <<<<"v", "i", "e", "r", "z", "e", "h", "n">>, 14>>, <<<<"f", "u_uml", "n", "f", "z", "e", "h", "n">>, 15>>, <<<<"f", "u", "n", "f", "z", "e", "h", "n">>, 15>>,
  <<<<"s", "e", "c", "h", "z", "e", "h", "n">>, 16>>, <<<<"s", "i", "e", "b", "z", "e", "h", "n">>, 17>>, <<<<"a", "c", "h", "t", "z", "e", "h", "n">>, 18>>,
  <<<<"n", "e", "u", "n", "z", "e", "h", "n">>, 19>>, <<<<"z", "w", "a", "n", "z", "i", "g">>, 20>>,
  <<<<"e", "i", "n", "u", "n", "d", "z", "w", "a", "n", "z", "i", "g">>, 21>>, <<<<"z", "w", "e", "i", "u", "n", "d", "z", "w", "a", "n", "z", "i", "g">>, 22>>, <<<<"d", "r", "e", "i", "u", "n", "d", "z", "w", "a", "n", "z", "i", "g">>, 23>>,
  <<<<"v", "i", "e", "r", "u", "n", "d", "z", "w", "a", "n", "z", "i", "g">>, 24>>, <<<<"f", "u_uml", "n", "f", "u", "n", "d", "z", "w", "a", "n", "z", "i", "g">>, 25>>, <<<<"f", "u", "n", "f", "u", "n", "d", "z", "w", "a", "n", "z", "i", "g">>, 25>>,
  <<<<"s", "e", "c", "h", "s", "u", "n", "d", "z", "w", "a", "n", "z", "i", "g">>, 26>>, <<<<"s", "i", "e", "b", "e", "n", "u", "n", "d", "z", "w", "a", "n", "z", "i", "g">>, 27>>, <<<<"a", "c", "h", "t", "u", "n", "d", "z", "w", "a", "n", "z", "i", "g">>, 28>>,
  <<<<"n", "e", "u", "n", "u", "n", "d", "z", "w", "a", "n", "z", "i", "g">>, 29>>, <<<<"d", "r", "e", "i", "sz", "i", "g">>, 30>>, <<<<"d", "r", "e", "i", "s", "s", "i", "g">>, 30>>,
  <<<<"e", "i", "n", "u", "n", "d", "d", "r", "e", "i", "sz", "i", "g">>, 31>>, <<<<"e", "i", "n", "u", "n", "d", "d", "r", "e", "i", "s", "s", "i", "g">>, 31>> >>

\* LOOKUP_TABLES.relativeDates, in insertion order (the order of iteration).
relativeDates == <<
  <<<<"h", "e", "u", "t", "e">>, 0>>, <<<<"m", "o", "r", "g", "e", "n">>, 1>>, <<<<"u_uml", "b", "e", "r", "m", "o", "r", "g", "e", "n">>, 2>>, <<<<"u", "e", "b", "e", "r", "m", "o", "r", "g", "e", "n">>, 2>> >>

\* utils.normalizeText
normalizeText(text) ==
  trim(ReplacePair(ReplacePair(ReplacePair(
         CollapseWs(StripAccents(NFD(toLowerCase(text)))),
         "a", "e", <<"a_uml">>), "o", "e", <<"o_uml">>), "u", "e", <<"u_uml">>))

\* utils.isValidYmd on integers: the range checks, then the round trip through
\* Date.UTC(y, m - 1, d).
isValidYmd(y, m, d) ==
  /\ y >= minYear /\ y <= maxYear
  /\ m >= 1 /\ m <= 12
  /\ d >= 1 /\ d <= 31
  /\ CivilFromDays(MakeDay(y, m - 1, d)) = [y |-> y, m |-> m, d |-> d]

\* The mutation of nextWeekday that forgets the full-week roll-over.
nextWeekdayNoRoll(from, targetWd) == addDays(from, (targetWd - getDay(from) + 7) % 7)

\* utils.nextWeekday
nextWeekday(from, targetWd) ==
  With(getDay(from), LAMBDA wd :
  With((targetWd - wd + 7) % 7, LAMBDA delta0 :
  With(IF delta0 = 0 THEN 7 ELSE delta0, LAMBDA delta :
      addDays(from, delta))))

\* REGEX.trailingDot: replace(/\.$/, "")
StripTrailingDot(s) ==
  IF s # <<>> /\ s[Len(s)] = "." THEN SubSeq(s, 1, Len(s) - 1) ELSE s

\* REGEX.ordinalSuffix: the alternatives, in the order the pattern tries them.
ordinalSuffixes == << <<"s", "t", "e">>, <<"s", "t", "e", "n">>, <<"s", "t", "e", "r">>, <<"s", "t", "e", "s">>, <<"t", "e">>, <<"t", "e", "n">>, <<"t", "e", "r">>, <<"t", "e", "s">> >>

\* replace(REGEX.ordinalSuffix, ""): the leftmost position at which one of the
\* alternatives reaches the end of the word is cut off.
StripOrdinalSuffix(w) ==
  With({i \in 1..Len(w) :
          \E k \in DOMAIN ordinalSuffixes : SubSeq(w, i, Len(w)) = ordinalSuffixes[k]}, LAMBDA starts :
      IF starts = {} THEN w
      ELSE SubSeq(w, 1, (CHOOSE i \in starts : \A j \in starts : i <= j) - 1))

\* utils.wordToNum; null is modelled as 0 (no table value is 0).
wordToNum(word) ==
  With(StripOrdinalSuffix(StripAccents(NFD(toLowerCase(word)))), LAMBDA normalized :
  With(MapGet(numberWords, normalized), LAMBDA v :
      IF v = Undefined THEN 0 ELSE v))

RECURSIVE SplitWs(_)
\* split(/\s+/) of a text.
SplitWs(s) ==
  With(CHOOSE n \in 0..Len(s) :
         /\ \A i \in 1..n : ~IsSpace(s[i])
         /\ (n = Len(s) \/ IsSpace(s[n + 1])), LAMBDA k :
  With(IF k = Len(s) THEN <<>> ELSE SubSeq(s, k + 1 + SpaceRun(s, k + 1), Len(s)), LAMBDA rest :
      IF k = Len(s) THEN <<s>>
      ELSE <<SubSeq(s, 1, k)>> \o
           (IF k + SpaceRun(s, k + 1) = Len(s) THEN << <<>> >> ELSE SplitWs(rest))))

\* The month lookup shared by the long form and the word form:
\* get(normalized.slice(0, 3)) || get(normalized) || get(monthKey)
MonthOf(monthKey) ==
  With(normalizeText(monthKey), LAMBDA normalized :
  With(MapGet(monthsDE, SubSeq(normalized, 1, IF Len(normalized) < 3 THEN Len(normalized) ELSE 3)), LAMBDA a :
  With(MapGet(monthsDE, normalized), LAMBDA b :
  With(MapGet(monthsDE, monthKey), LAMBDA c :
      IF a # Undefined THEN a ELSE IF b # Undefined THEN b ELSE c))))

NoMatch == [matched |-> FALSE]

\* The mutation of parseDayMonthWords that takes a month said as a number for
\* certain.
parseDayMonthWordsSure(text) ==
  With(SplitWs(trim(text)), LAMBDA parts :
  With(wordToNum(parts[1]), LAMBDA d :
  With(MonthOf(StripTrailingDot(parts[2])), LAMBDA m :
  With(wordToNum(parts[2]), LAMBDA mNum :
      IF Len(parts) < 2 THEN NoMatch
      ELSE IF d = 0 THEN NoMatch
      ELSE IF m # Undefined THEN [matched |-> TRUE, d |-> d, m |-> m, needsConfirm |-> FALSE]
      ELSE IF mNum >= 1 /\ mNum <= 12
           THEN [matched |-> TRUE, d |-> d, m |-> mNum, needsConfirm |-> FALSE]
           ELSE NoMatch))))

\* parseDayMonthWords
parseDayMonthWords(text) ==
  With(SplitWs(trim(text)), LAMBDA parts :
  With(wordToNum(parts[1]), LAMBDA d :
  With(MonthOf(StripTrailingDot(parts[2])), LAMBDA m :
  With(wordToNum(parts[2]), LAMBDA mNum :
      IF Len(parts) < 2 THEN NoMatch
      ELSE IF d = 0 THEN NoMatch
      ELSE IF m # Undefined THEN [matched |-> TRUE, d |-> d, m |-> m, needsConfirm |-> FALSE]
      ELSE IF mNum >= 1 /\ mNum <= 12
           THEN [matched |-> TRUE, d |-> d, m |-> mNum, needsConfirm |-> TRUE]
           ELSE NoMatch))))

-----------------------------------------------------------------------------
(* JSON values of a request, and JavaScript Date instants.                  *)

\* A string value, a number value, and the absent field (undefined / null).
Str(t) == [kind |-> "string", text |-> t]
Num(n) == [kind |-> "number", n |-> n]
Absent == [kind |-> "undefined"]

\* The text that stands for null / undefined where the code keeps a date string:
\* like them, the empty string is falsy.
NoDate == <<>>

\* An instant is a number of minutes since the epoch, in UTC; NaN is the
\* Invalid Date.
NaN == [valid |-> FALSE]
Instant(utcMinutes) == [valid |-> TRUE, utc |-> utcMinutes]
MinutesPerDay == 24 * 60

\* new Date(y, m0, d): local midnight of a (possibly overflowing) date.
LocalMidnight(y, m0, d) == Instant(MakeDay(y, m0, d) * MinutesPerDay - tz)
\* The local calendar day and the UTC calendar day of an instant.
LocalDay(t) == (t.utc + tz) \div MinutesPerDay
UtcDay(t) == t.utc \div MinutesPerDay
\* new Date(): the server clock.
Now == Instant(today * MinutesPerDay + minute - tz)

\* /^\d{4}-\d{2}-\d{2}$/
IsoDateShape(s) ==
  /\ Len(s) = 10
  /\ \A i \in {1, 2, 3, 4, 6, 7, 9, 10} : IsDigit(s[i])
  /\ s[5] = "-" /\ s[8] = "-"

IsoYear(s) == parseIntDigits(SubSeq(s, 1, 4))
IsoMonth(s) == parseIntDigits(SubSeq(s, 6, 7))
IsoDay(s) == parseIntDigits(SubSeq(s, 9, 10))

RECURSIVE NumberTokens(_, _)
\* The numbers of a text made of digits and of the separators . / - and blank,
\* in order (the number tokens of the date scanner).
NumberTokens(s, i) ==
  IF i > Len(s) THEN <<>>
  ELSE IF IsDigit(s[i])
       THEN <<parseIntDigits(SubSeq(s, i, i + DigitRun(s, i) - 1))>>
            \o NumberTokens(s, i + DigitRun(s, i))
       ELSE NumberTokens(s, i + 1)

\* new Date(string) / Date.parse as Node's engine implements it, for the texts
\* the parsers hand to it:
\*  - YYYY-MM-DD with month 1..12 and day 1..31 is UTC midnight of that date,
\*    a day beyond the end of the month running over into the next month;
\*  - one to three numbers separated by . / - or blanks are read as month, day,
\*    year (year, month, day if the first number is no day of a month), a missing
\*    day being 1 and a missing year 2001, at local midnight;
\*  - a text with no number, or with a word after a number, is an Invalid Date.
NativeDateParse(s) ==
  With(NumberTokens(s, 1), LAMBDA n :
  With(\A i \in DOMAIN s : IsDigit(s[i]) \/ s[i] \in {".", "/", "-", " "}, LAMBDA onlyNumbers :
  With([i \in 1..3 |-> IF i <= Len(n) THEN n[i] ELSE 1], LAMBDA c :
  With(~(c[1] >= 1 /\ c[1] <= 31), LAMBDA ymdOrder :
  With(IF ymdOrder THEN c[1] ELSE c[3], LAMBDA year0 :
  With(IF ymdOrder THEN c[2] ELSE c[1], LAMBDA month :
  With(IF ymdOrder THEN c[3] ELSE c[2], LAMBDA day :
  With(IF year0 >= 0 /\ year0 <= 49 THEN year0 + 2000
       ELSE IF year0 >= 50 /\ year0 <= 99 THEN year0 + 1900 ELSE year0, LAMBDA year :
      IF IsoDateShape(s) /\ IsoMonth(s) \in 1..12 /\ IsoDay(s) \in 1..31
      THEN Instant(MakeDay(IsoYear(s), IsoMonth(s) - 1, IsoDay(s)) * MinutesPerDay)
      ELSE IF ~onlyNumbers \/ Len(n) < 1 \/ Len(n) > 3 THEN NaN
      ELSE IF month \in 1..12 /\ day \in 1..31
           THEN LocalMidnight(year, month - 1, day)
           ELSE NaN))))))))

-----------------------------------------------------------------------------
(* src/server.js: the patterns of REGEX, as matchers on a text.             *)

Min(S) == CHOOSE x \in S : \A y \in S : x <= y

\* REGEX.relativeDate  /in\s+(\d{1,2})\s*tag(?:e|en)?/  at position i.
relativeDateAt(s, i) ==
  With(i + 2 + SpaceRun(s, i + 2), LAMBDA j :
  With(DigitRun(s, j), LAMBDA k :
      /\ StartsAt(s, i, <<"i", "n">>)
      /\ SpaceRun(s, i + 2) >= 1
      /\ k \in {1, 2}
      /\ StartsAt(s, j + k + SpaceRun(s, j + k), <<"t", "a", "g">>)))

\* s.match(REGEX.relativeDate): the leftmost match; n is group 1.
matchRelativeDate(s) ==
  With({i \in 1..Len(s) : relativeDateAt(s, i)}, LAMBDA hits :
  With(Min(hits), LAMBDA i :
  With(i + 2 + SpaceRun(s, i + 2), LAMBDA j :
      IF hits = {} THEN NoMatch
      ELSE [matched |-> TRUE, n |-> parseIntDigits(SubSeq(s, j, j + DigitRun(s, j) - 1))])))

weekdayPrefixes == << <<"n", "a_uml", "c", "h", "s", "t", "e", "n">>, <<"k", "o", "m", "m", "e", "n", "d", "e", "n">>, <<"a", "m">> >>

\* First alternative of REGEX.weekdayPattern at position i:
\* (?:n{a_uml}chsten|kommenden|am)\s+([a-z{a_uml}{o_uml}{u_uml}{sz}.]+)
weekdayPhraseAt(s, i) ==
  \E p \in DOMAIN weekdayPrefixes :
    LET j == i + Len(weekdayPrefixes[p]) IN
      /\ StartsAt(s, i, weekdayPrefixes[p])
      /\ SpaceRun(s, j) >= 1
      /\ WordRun(s, j + SpaceRun(s, j)) >= 1

\* s.match(REGEX.weekdayPattern): key is group 1 or group 2.
matchWeekdayPattern(s) ==
  With({i \in 1..Len(s) : weekdayPhraseAt(s, i)}, LAMBDA hits :
  With(Min(hits), LAMBDA i :
  With(CHOOSE q \in DOMAIN weekdayPrefixes :
         /\ StartsAt(s, i, weekdayPrefixes[q])
         /\ SpaceRun(s, i + Len(weekdayPrefixes[q])) >= 1, LAMBDA p :
  With(i + Len(weekdayPrefixes[p]) + SpaceRun(s, i + Len(weekdayPrefixes[p])), LAMBDA j :
      IF hits # {}
      THEN [matched |-> TRUE, key |-> SubSeq(s, j, j + WordRun(s, j) - 1)]
      ELSE IF Len(s) >= 1 /\ WordRun(s, 1) = Len(s)
           THEN [matched |-> TRUE, key |-> s]
           ELSE NoMatch))))

IsDateSep(c) == c \in {".", "-", "/"}

\* The end of REGEX.europeanDate from position p:  \s*\.?$
EuroTail(s, p) ==
  With(p + SpaceRun(s, p), LAMBDA q :
      q = Len(s) + 1 \/ (q = Len(s) /\ s[q] = "."))

\* s.match(REGEX.europeanDate):
\* /^(\d{1,2})[.\-/]\s*(\d{1,2})(?:[.\-/]\s*(\d{2,4}))?\s*\.?$/
\* year is the text of group 3, empty when the group did not take part.
matchEuropeanDate(s) ==
  With(DigitRun(s, 1), LAMBDA k1 :
  With(k1 + 2 + SpaceRun(s, k1 + 2), LAMBDA p2 :
  With(DigitRun(s, p2), LAMBDA k2 :
  With(p2 + k2, LAMBDA p3 :
  With(p3 + 1 + SpaceRun(s, p3 + 1), LAMBDA py :
  With(DigitRun(s, py), LAMBDA ky :
  With(/\ k1 \in {1, 2}
       /\ k1 + 1 <= Len(s) /\ IsDateSep(s[k1 + 1])
       /\ k2 \in {1, 2}, LAMBDA head :
  With(/\ p3 <= Len(s) /\ IsDateSep(s[p3])
       /\ ky \in {2, 3, 4}
       /\ EuroTail(s, py + ky), LAMBDA withYear :
      IF ~head THEN NoMatch
      ELSE IF withYear
           THEN [matched |-> TRUE, d |-> SubSeq(s, 1, k1), m |-> SubSeq(s, p2, p3 - 1),
                 year |-> SubSeq(s, py, py + ky - 1)]
           ELSE IF EuroTail(s, p3)
                THEN [matched |-> TRUE, d |-> SubSeq(s, 1, k1), m |-> SubSeq(s, p2, p3 - 1),
                      year |-> <<>>]
                ELSE NoMatch))))))))

\* s.match(REGEX.longDatePattern):  /^(\d{1,2})\.?\s+([a-z{a_uml}{o_uml}{u_uml}{sz}.]+)(?:\s+(\d{4}))?$/i
matchLongDate(s) ==
  With(DigitRun(s, 1), LAMBDA k1 :
  With(IF k1 + 1 <= Len(s) /\ s[k1 + 1] = "." THEN k1 + 2 ELSE k1 + 1, LAMBDA p0 :
  With(p0 + SpaceRun(s, p0), LAMBDA pw :
  With(WordRun(s, pw), LAMBDA kw :
  With(pw + kw, LAMBDA pe :
  With(pe + SpaceRun(s, pe), LAMBDA py :
  With(/\ k1 \in {1, 2}
       /\ SpaceRun(s, p0) >= 1
       /\ kw >= 1, LAMBDA head :
  With(/\ SpaceRun(s, pe) >= 1
       /\ DigitRun(s, py) = 4
       /\ py + 4 = Len(s) + 1, LAMBDA withYear :
      IF ~head THEN NoMatch
      ELSE IF withYear
           THEN [matched |-> TRUE, d |-> SubSeq(s, 1, k1), word |-> SubSeq(s, pw, pe - 1),
                 year |-> SubSeq(s, py, py + 3)]
           ELSE IF pe = Len(s) + 1
                THEN [matched |-> TRUE, d |-> SubSeq(s, 1, k1), word |-> SubSeq(s, pw, pe - 1),
                      year |-> <<>>]
                ELSE NoMatch))))))))

-----------------------------------------------------------------------------
(* src/server.js: parseDateSmart.                                           *)

\* The results of parseDateSmart: { ok, date, needs_confirmation, notes } and
\* { ok: false, reason, needs_confirmation: false, notes }.
Ok(date, nc, notes) ==
  [ok |-> TRUE, date |-> date, needs_confirmation |-> nc, notes |-> notes, reason |-> "none"]
Fail(reason) ==
  [ok |-> FALSE, date |-> NoDate, needs_confirmation |-> FALSE, notes |-> <<>>,
   reason |-> reason]

\* A rule of the parser either returns a result or falls through to the next.
Hit(r) == [hit |-> TRUE, r |-> r]
Pass == [hit |-> FALSE]

\* isValidString(raw, 1)
isValidString1(raw) == raw.kind = "string" /\ Len(raw.text) >= 1

\* The year of group 3: a two-digit year is 2000 + n.
EuroYear(yearText, baseDate) ==
  IF yearText = <<>> THEN CivilFromDays(baseDate).y
  ELSE IF Len(yearText) = 2 THEN 2000 + parseIntDigits(yearText)
  ELSE parseIntDigits(yearText)

\* "Relative dates": the first key of the table that the text includes.
RuleRelative(s, baseDate) ==
  With({i \in DOMAIN relativeDates : Includes(s, relativeDates[i][1])}, LAMBDA hits :
      IF hits = {} THEN Pass
      ELSE Hit(Ok(ymd(addDays(baseDate, relativeDates[Min(hits)][2])), FALSE, <<>>)))

\* "in X Tagen"
RuleInDays(s, baseDate) ==
  With(matchRelativeDate(s), LAMBDA relMatch :
      IF relMatch.matched /\ relMatch.n > 0 /\ relMatch.n < 365
      THEN Hit(Ok(ymd(addDays(baseDate, relMatch.n)), FALSE, <<>>))
      ELSE Pass)

\* "Weekday patterns"
RuleWeekday(s, baseDate) ==
  With(matchWeekdayPattern(s), LAMBDA wdMatch :
  With(MapGet(weekdaysDE, StripTrailingDot(wdMatch.key)), LAMBDA weekdayNum :
      IF wdMatch.matched /\ weekdayNum # Undefined
      THEN Hit(Ok(ymd(nextWeekday(baseDate, weekdayNum)), TRUE, <<"weekday_inferred">>))
      ELSE Pass))

\* The mutation of the ISO rule that forgets to pad month and day.
RuleIsoUnpadded(s) ==
  IF IsoDateShape(s) /\ isValidYmd(IsoYear(s), IsoMonth(s), IsoDay(s))
  THEN Hit(Ok(NatToText(IsoYear(s)) \o <<"-">> \o NatToText(IsoMonth(s)) \o <<"-">>
              \o NatToText(IsoDay(s)), FALSE, <<>>))
  ELSE Pass

\* "ISO date format"
RuleIso(s) ==
  IF IsoDateShape(s) /\ isValidYmd(IsoYear(s), IsoMonth(s), IsoDay(s))
  THEN Hit(Ok(YmdText(IsoYear(s), IsoMonth(s), IsoDay(s)), FALSE, <<>>))
  ELSE Pass

\* The year roll-over shared by the European and the long form: a date without
\* a year that lies before the base date moves to the next year, if that date
\* exists there.
WithRollOver(y, m, d, noYear, baseDate) ==
  IF noYear /\ TextLess(YmdText(y, m, d), ymd(baseDate))
  THEN IF isValidYmd(y + 1, m, d)
       THEN Ok(YmdText(y + 1, m, d), TRUE, <<"year_rolled_forward">>)
       ELSE Ok(YmdText(y, m, d), FALSE, <<>>)
  ELSE Ok(YmdText(y, m, d), FALSE, <<>>)

\* "European date formats"
RuleEuropean(s, baseDate) ==
  With(matchEuropeanDate(s), LAMBDA euroMatch :
  With(parseIntDigits(euroMatch.d), LAMBDA d :
  With(parseIntDigits(euroMatch.m), LAMBDA m :
  With(EuroYear(euroMatch.year, baseDate), LAMBDA y :
      IF euroMatch.matched /\ isValidYmd(y, m, d)
      THEN Hit(WithRollOver(y, m, d, euroMatch.year = <<>>, baseDate))
      ELSE Pass))))

\* "Long date format"
RuleLong(s, baseDate) ==
  With(matchLongDate(s), LAMBDA longMatch :
  With(parseIntDigits(longMatch.d), LAMBDA d :
  With(MonthOf(StripTrailingDot(longMatch.word)), LAMBDA m :
  With(IF longMatch.year = <<>> THEN CivilFromDays(baseDate).y
       ELSE parseIntDigits(longMatch.year), LAMBDA y :
      IF longMatch.matched /\ m # Undefined /\ isValidYmd(y, m, d)
      THEN Hit(WithRollOver(y, m, d, longMatch.year = <<>>, baseDate))
      ELSE Pass))))

\* "Word-based date parsing"
RuleWords(s, baseDate) ==
  With(parseDayMonthWords(s), LAMBDA dmw :
  With(CivilFromDays(baseDate).y, LAMBDA y0 :
  With(TextLess(YmdText(y0, dmw.m, dmw.d), ymd(baseDate)), LAMBDA past :
  With(past /\ isValidYmd(y0 + 1, dmw.m, dmw.d), LAMBDA rolled :
  With(IF past THEN y0 + 1 ELSE y0, LAMBDA y :
  With(IF rolled THEN YmdText(y0 + 1, dmw.m, dmw.d) ELSE YmdText(y0, dmw.m, dmw.d), LAMBDA date :
  With(dmw.needsConfirm \/ rolled, LAMBDA needsConfirm :
      IF dmw.matched /\ isValidYmd(y, dmw.m, dmw.d)
      THEN Hit(Ok(date, needsConfirm,
                  IF needsConfirm THEN <<"ordinal_or_word_format">> ELSE <<>>))
      ELSE Pass)))))))

\* The mutation of the fallback that takes its date for certain.
RuleFallbackUnconfirmed(s) ==
  With(NativeDateParse(s), LAMBDA fallbackDate :
      IF fallbackDate.valid /\ CivilFromDays(LocalDay(fallbackDate)).y > minYear
      THEN Hit(Ok(ymd(LocalDay(fallbackDate)), FALSE, <<"fallback_Date_parse">>))
      ELSE Pass)

\* "Fallback to native Date parsing"
RuleFallback(s) ==
  With(NativeDateParse(s), LAMBDA fallbackDate :
      IF fallbackDate.valid /\ CivilFromDays(LocalDay(fallbackDate)).y > minYear
      THEN Hit(Ok(ymd(LocalDay(fallbackDate)), TRUE, <<"fallback_Date_parse">>))
      ELSE Pass)

\* parseDateSmart(raw, type, baseDate); baseDate is the local day of the Date.
parseDateSmart(raw, type, baseDate) ==
  IF ~isValidString1(raw) THEN Fail("missing")
  ELSE
    LET s  == normalizeText(raw.text)
        r1 == RuleRelative(s, baseDate)
        r2 == RuleInDays(s, baseDate)
        r3 == RuleWeekday(s, baseDate)
        r4 == RuleIso(s)
        r5 == RuleEuropean(s, baseDate)
        r6 == RuleLong(s, baseDate)
        r7 == RuleWords(s, baseDate)
        r8 == RuleFallback(s)
    IN  IF r1.hit THEN r1.r
        ELSE IF r2.hit THEN r2.r
        ELSE IF r3.hit THEN r3.r
        ELSE IF r4.hit THEN r4.r
        ELSE IF r5.hit THEN r5.r
        ELSE IF r6.hit THEN r6.r
        ELSE IF r7.hit THEN r7.r
        ELSE IF r8.hit THEN r8.r
        ELSE Fail("format")

-----------------------------------------------------------------------------
(* part_005: normalizeDate, the date parser of the earlier server.          *)

\* isValidYmd of part_005: the round trip through Date.UTC, which reads a
\* year of 0..99 as 1900 + year.
isValidYmdUtc(y, m, d) ==
  /\ y > 99
  /\ CivilFromDays(MakeDay(y, m - 1, d)) = [y |-> y, m |-> m, d |-> d]

\* input.trim().toLowerCase(), the blanks collapsed, ae, oe and ue made umlauts.
normalizeDateText(input) ==
  ReplacePair(ReplacePair(ReplacePair(CollapseWs(toLowerCase(trim(input))),
                                      "a", "e", <<"a_uml">>),
                          "o", "e", <<"o_uml">>),
              "u", "e", <<"u_uml">>)

\* /(^| )word( |$)/.test(s)
hasWord(s, word) ==
  \E i \in 1..Len(s) :
    /\ StartsAt(s, i, word)
    /\ i = 1 \/ s[i - 1] = " "
    /\ i + Len(word) > Len(s) \/ s[i + Len(word)] = " "

wdPhraseLeads == << <<"n", "a_uml", "c", "h", "s", "t", "e", "n">>, <<"n", "a", "c", "h", "s", "t", "e", "n">>, <<"k", "o", "m", "m", "e", "n", "d", "e", "n">>, <<"a", "m">> >>

\* /(?:n[{a_uml}a]chsten|kommenden|am)\s+([a-z.{a_uml}{o_uml}{u_uml}{sz}]+)/ at
\* position i with the lead p.
wdPhraseAt(s, i, p) ==
  /\ StartsAt(s, i, wdPhraseLeads[p])
  /\ SpaceRun(s, i + Len(wdPhraseLeads[p])) >= 1
  /\ WordRun(s, i + Len(wdPhraseLeads[p]) + SpaceRun(s, i + Len(wdPhraseLeads[p]))) >= 1

\* s.match of that pattern: the leftmost match; key is group 1.
matchWdPhrase(s) ==
  With({i \in 1..Len(s) : \E p \in DOMAIN wdPhraseLeads : wdPhraseAt(s, i, p)}, LAMBDA hits :
  With(Min(hits), LAMBDA i :
  With(Min({p \in DOMAIN wdPhraseLeads : wdPhraseAt(s, i, p)}), LAMBDA p :
  With(i + Len(wdPhraseLeads[p]) + SpaceRun(s, i + Len(wdPhraseLeads[p])), LAMBDA j :
      IF hits = {} THEN NoMatch
      ELSE [matched |-> TRUE, key |-> SubSeq(s, j, j + WordRun(s, j) - 1)]))))

\* s.match(/^(\d{1,2})\.\s*(\d{1,2})(?:\.\s*(\d{2,4}))?$/)
matchDotted(s) ==
  With(DigitRun(s, 1), LAMBDA k1 :
  With(k1 + 2 + SpaceRun(s, k1 + 2), LAMBDA p2 :
  With(DigitRun(s, p2), LAMBDA k2 :
  With(p2 + k2, LAMBDA p3 :
  With(p3 + 1 + SpaceRun(s, p3 + 1), LAMBDA py :
  With(DigitRun(s, py), LAMBDA ky :
      IF ~(k1 \in {1, 2} /\ k1 + 1 <= Len(s) /\ s[k1 + 1] = "." /\ k2 \in {1, 2})
      THEN NoMatch
      ELSE IF p3 = Len(s) + 1
      THEN [matched |-> TRUE, d |-> SubSeq(s, 1, k1), m |-> SubSeq(s, p2, p3 - 1),
            year |-> <<>>]
      ELSE IF s[p3] = "." /\ ky \in {2, 3, 4} /\ py + ky = Len(s) + 1
      THEN [matched |-> TRUE, d |-> SubSeq(s, 1, k1), m |-> SubSeq(s, p2, p3 - 1),
            year |-> SubSeq(s, py, py + ky - 1)]
      ELSE NoMatch))))))

\* "20.10. bzw. 20.10.2025": the date, or nothing to fall through.
dottedDate(s, baseDate) ==
  With(matchDotted(s), LAMBDA m1 :
  With(parseIntDigits(m1.d), LAMBDA d :
  With(parseIntDigits(m1.m), LAMBDA m :
  With(EuroYear(m1.year, baseDate), LAMBDA y :
      IF m1.matched /\ isValidYmdUtc(y, m, d) THEN YmdText(y, m, d) ELSE NoDate))))

\* MONTHS_DE[key.slice(0, 3)] || MONTHS_DE[key] || MONTHS_DE[monKey], key
\* being monKey without its accents.
monthOfKey(monKey) ==
  With(StripAccents(NFD(monKey)), LAMBDA key :
  With(MapGet(monthsDE, SubSeq(key, 1, IF Len(key) < 3 THEN Len(key) ELSE 3)), LAMBDA a :
  With(MapGet(monthsDE, key), LAMBDA b :
      IF a # Undefined THEN a ELSE IF b # Undefined THEN b ELSE MapGet(monthsDE, monKey))))

\* "20. Oktober (2025)": the date, or nothing to fall through.
longDate(s, baseDate) ==
  With(matchLongDate(s), LAMBDA m2 :
  With(parseIntDigits(m2.d), LAMBDA d :
  With(monthOfKey(StripTrailingDot(m2.word)), LAMBDA m :
  With(IF m2.year = <<>> THEN CivilFromDays(baseDate).y
       ELSE parseIntDigits(m2.year), LAMBDA y :
      IF m2.matched /\ m # Undefined /\ isValidYmdUtc(y, m, d)
      THEN YmdText(y, m, d) ELSE NoDate))))

\* "Fallback: Date.parse"
fallbackDate(s) ==
  IF NativeDateParse(s).valid THEN ymd(LocalDay(NativeDateParse(s))) ELSE NoDate

\* The rules of normalizeDate on the normalized text s; NoDate is null.
normalizeDateOf(s, baseDate) ==
  IF hasWord(s, <<"h", "e", "u", "t", "e">>) THEN ymd(baseDate)
  ELSE IF hasWord(s, <<"m", "o", "r", "g", "e", "n">>) THEN ymd(addDays(baseDate, 1))
  ELSE IF hasWord(s, <<"u_uml", "b", "e", "r", "m", "o", "r", "g", "e", "n">>) \/ hasWord(s, <<"u", "e", "b", "e", "r", "m", "o", "r", "g", "e", "n">>)
  THEN ymd(addDays(baseDate, 2))
  ELSE IF matchRelativeDate(s).matched
  THEN ymd(addDays(baseDate, matchRelativeDate(s).n))
  ELSE IF /\ matchWdPhrase(s).matched
          /\ MapGet(weekdaysDE, StripTrailingDot(matchWdPhrase(s).key)) # Undefined
  THEN ymd(nextWeekday(baseDate, MapGet(weekdaysDE, StripTrailingDot(matchWdPhrase(s).key))))
  ELSE IF MapGet(weekdaysDE, StripTrailingDot(s)) # Undefined
  THEN ymd(nextWeekday(baseDate, MapGet(weekdaysDE, StripTrailingDot(s))))
  ELSE IF IsoDateShape(s)
  THEN IF isValidYmdUtc(IsoYear(s), IsoMonth(s), IsoDay(s))
       THEN YmdText(IsoYear(s), IsoMonth(s), IsoDay(s)) ELSE NoDate
  ELSE IF dottedDate(s, baseDate) # NoDate THEN dottedDate(s, baseDate)
  ELSE IF longDate(s, baseDate) # NoDate THEN longDate(s, baseDate)
  ELSE fallbackDate(s)

\* normalizeDate(input, baseDate) of part_005.
normalizeDate(input, baseDate) ==
  IF input.kind # "string" \/ input.text = <<>> THEN NoDate
  ELSE normalizeDateOf(normalizeDateText(input.text), baseDate)

-----------------------------------------------------------------------------
(* Request bodies and JavaScript numbers.                                   *)

\* body.<name>: the value of a field, Absent if the body has no such field.
Field(body, name) == IF name \in DOMAIN body THEN body[name] ELSE Absent

\* Truthiness of a JSON value, and a || b.
Truthy(v) ==
  \/ v.kind = "string" /\ v.text # <<>>
  \/ v.kind = "number" /\ v.n # 0
  \/ v.kind = "boolean" /\ v.b
OrElse(a, b) == IF Truthy(a) THEN a ELSE b

\* A JavaScript number that is an integer, and NaN.
NotANumber == [finite |-> FALSE]
Finite(n) == [finite |-> TRUE, n |-> n]

\* parseInt(v, 10) on a JSON value: an integer number is itself; a string gives
\* the digits after optional blanks and an optional sign; anything else is NaN.
parseInt(v) ==
  IF v.kind = "number" THEN Finite(v.n)
  ELSE IF v.kind # "string" THEN NotANumber
  ELSE LET s    == TrimLeft(v.text)
           sign == IF s # <<>> /\ s[1] \in {"-", "+"} THEN 1 ELSE 0
           k    == DigitRun(s, sign + 1)
           abs  == parseIntDigits(SubSeq(s, sign + 1, sign + k))
       IN  IF k = 0 THEN NotANumber
           ELSE Finite(IF sign = 1 /\ s[1] = "-" THEN 0 - abs ELSE abs)

\* parseInt(v) || def
parseIntOr(v, def) ==
  IF parseInt(v).finite /\ parseInt(v).n # 0 THEN parseInt(v).n ELSE def

-----------------------------------------------------------------------------
(* src/src/server.js: utils.normalize, utils.parseDateAny, extractWithRules.*)

\* LOOKUP_TABLES.months
months == <<
  <<<<"j", "a", "n", "u", "a", "r">>, 1>>, <<<<"j", "a", "n">>, 1>>, <<<<"f", "e", "b", "r", "u", "a", "r">>, 2>>, <<<<"f", "e", "b">>, 2>>,
  <<<<"m", "a", "e", "r", "z">>, 3>>, <<<<"m", "a_uml", "r", "z">>, 3>>, <<<<"m", "r", "z">>, 3>>, <<<<"m", "a", "r">>, 3>>,
  <<<<"a", "p", "r", "i", "l">>, 4>>, <<<<"a", "p", "r">>, 4>>, <<<<"m", "a", "i">>, 5>>,
  <<<<"j", "u", "n", "i">>, 6>>, <<<<"j", "u", "n">>, 6>>, <<<<"j", "u", "l", "i">>, 7>>, <<<<"j", "u", "l">>, 7>>,
  <<<<"a", "u", "g", "u", "s", "t">>, 8>>, <<<<"a", "u", "g">>, 8>>, <<<<"s", "e", "p", "t", "e", "m", "b", "e", "r">>, 9>>, <<<<"s", "e", "p">>, 9>>, <<<<"s", "e", "p", "t">>, 9>>,
  <<<<"o", "k", "t", "o", "b", "e", "r">>, 10>>, <<<<"o", "k", "t">>, 10>>, <<<<"n", "o", "v", "e", "m", "b", "e", "r">>, 11>>, <<<<"n", "o", "v">>, 11>>,
  <<<<"d", "e", "z", "e", "m", "b", "e", "r">>, 12>>, <<<<"d", "e", "z">>, 12>> >>

\* utils.normalize on a string: the umlaut replacements come after the accents
\* are stripped.
normalize(s) ==
  trim(CollapseWs(
    ReplaceChar(ReplaceChar(ReplaceChar(ReplaceChar(
      StripAccents(NFD(toLowerCase(s))),
      "a_uml", <<"a", "e">>), "o_uml", <<"o", "e">>), "u_uml", <<"u", "e">>), "sz", <<"s", "s">>)))

\* date.toISOString().slice(0, 10): the UTC calendar date of an instant.
toISODate(t) == ymd(UtcDay(t))

\* str.match(/^(\d{1,2})<sep>(\d{1,2})(?:<sep>(\d{2,4}))?$/)
matchDayMonthYear(str, sep) ==
  With(DigitRun(str, 1), LAMBDA k1 :
  With(DigitRun(str, k1 + 2), LAMBDA k2 :
  With(k1 + 2 + k2, LAMBDA p :
  With(DigitRun(str, p + 1), LAMBDA k3 :
      IF /\ k1 \in 1..2
         /\ k1 + 1 <= Len(str) /\ str[k1 + 1] = sep
         /\ k2 \in 1..2
         /\ \/ p > Len(str)
            \/ str[p] = sep /\ k3 \in 2..4 /\ p + k3 = Len(str)
      THEN [matched |-> TRUE,
            d  |-> SubSeq(str, 1, k1),
            mo |-> SubSeq(str, k1 + 2, k1 + 1 + k2),
            y  |-> IF p > Len(str) THEN <<>> ELSE SubSeq(str, p + 1, Len(str))]
      ELSE NoMatch))))

\* normalized.match(/^(\d{1,2})\.\s*([a-z]+)(?:\s*(\d{2,4}))?$/)
matchDayMonthName(normalized) ==
  With(DigitRun(normalized, 1), LAMBDA k1 :
  With(k1 + 2 + SpaceRun(normalized, k1 + 2), LAMBDA a :
  With(LetterRun(normalized, a), LAMBDA kw :
  With(a + kw + SpaceRun(normalized, a + kw), LAMBDA b :
  With(DigitRun(normalized, b), LAMBDA k3 :
      IF /\ k1 \in 1..2
         /\ k1 + 1 <= Len(normalized) /\ normalized[k1 + 1] = "."
         /\ kw >= 1
         /\ \/ a + kw > Len(normalized)
            \/ k3 \in 2..4 /\ b + k3 = Len(normalized) + 1
      THEN [matched |-> TRUE,
            d   |-> SubSeq(normalized, 1, k1),
            mon |-> SubSeq(normalized, a, a + kw - 1),
            y   |-> IF a + kw > Len(normalized) THEN <<>>
                    ELSE SubSeq(normalized, b, Len(normalized))]
      ELSE NoMatch)))))

\* let year = y ? parseInt(y) : new Date().getFullYear(); if (year < 100) year += 2000
YearOf(y) ==
  With(IF y = <<>> THEN CivilFromDays(LocalDay(Now)).y ELSE parseIntDigits(y), LAMBDA year :
      IF year < 100 THEN year + 2000 ELSE year)

\* utils.parseDateAny on a string; null is NoDate.
parseDateAnyText(input) ==
  With(trim(input), LAMBDA str :
  With(matchDayMonthYear(str, "."), LAMBDA dotMatch :
  With(matchDayMonthYear(str, "/"), LAMBDA slashMatch :
  With(normalize(str), LAMBDA normalized :
  With(matchDayMonthName(normalized), LAMBDA monthMatch :
  With(MapGet(months, monthMatch.mon), LAMBDA month :
  With({i \in DOMAIN relativeDates : Includes(normalized, relativeDates[i][1])}, LAMBDA hits :
  With(NativeDateParse(str), LAMBDA date :
      IF IsoDateShape(str) THEN str
      ELSE IF dotMatch.matched
      THEN toISODate(LocalMidnight(YearOf(dotMatch.y), parseIntDigits(dotMatch.mo) - 1,
                                   parseIntDigits(dotMatch.d)))
      ELSE IF slashMatch.matched
      THEN toISODate(LocalMidnight(YearOf(slashMatch.y), parseIntDigits(slashMatch.mo) - 1,
                                   parseIntDigits(slashMatch.d)))
      ELSE IF monthMatch.matched /\ month # Undefined
      THEN toISODate(LocalMidnight(YearOf(monthMatch.y), month - 1,
                                   parseIntDigits(monthMatch.d)))
      ELSE IF hits # {}
      THEN toISODate(Instant(Now.utc + relativeDates[Min(hits)][2] * MinutesPerDay))
      ELSE IF date.valid THEN toISODate(date) ELSE NoDate))))))))

\* utils.parseDateAny: a falsy input (absent, the empty string) is null.
parseDateAny(input) ==
  IF input.kind # "string" \/ input.text = <<>> THEN NoDate
  ELSE parseDateAnyText(input.text)

\* \b before s[i], a digit: no word character [A-Za-z0-9_] in front of it.
IsAsciiWordChar(c) == IsAsciiLetter(LowerChar(c)) \/ IsDigit(c) \/ c = "_"
BoundaryBefore(s, i) == i = 1 \/ ~IsAsciiWordChar(s[i - 1])
BoundaryAfter(s, i) == i + 1 > Len(s) \/ ~IsAsciiWordChar(s[i + 1])

\* One match of /(\b\d{1,2})<sep>(\d{1,2})(?:<sep>(\d{2,4}))?/ at s[i], with the
\* position after it.
DateCandidateAt(s, i, sep) ==
  With(DigitRun(s, i), LAMBDA k1 :
  With(DigitRun(s, i + k1 + 1), LAMBDA r2 :
  With(IF r2 > 2 THEN 2 ELSE r2, LAMBDA k2 :
  With(i + k1 + 1 + k2, LAMBDA p :
  With(IF p <= Len(s) /\ s[p] = sep THEN DigitRun(s, p + 1) ELSE 0, LAMBDA r3 :
  With(IF r3 > 4 THEN 4 ELSE r3, LAMBDA k3 :
      IF /\ BoundaryBefore(s, i)
         /\ k1 \in 1..2
         /\ i + k1 <= Len(s) /\ s[i + k1] = sep
         /\ k2 >= 1
      THEN [matched |-> TRUE,
            d  |-> SubSeq(s, i, i + k1 - 1),
            mo |-> SubSeq(s, i + k1 + 1, p - 1),
            y  |-> IF k3 >= 2 THEN SubSeq(s, p + 1, p + k3) ELSE <<>>,
            next |-> IF k3 >= 2 THEN p + k3 + 1 ELSE p]
      ELSE NoMatch))))))

RECURSIVE DateCandidates(_, _, _)
\* rawText.matchAll(REGEX.dotDate) / matchAll(REGEX.slashDate): the candidate
\* strings `${d}<sep>${mo}<sep>${y || ""}`, left to right.
DateCandidates(s, i, sep) ==
  IF i > Len(s) THEN <<>>
  ELSE LET c == DateCandidateAt(s, i, sep)
       IN  IF c.matched
           THEN <<c.d \o <<sep>> \o c.mo \o <<sep>> \o c.y>> \o DateCandidates(s, c.next, sep)
           ELSE DateCandidates(s, i + 1, sep)

\* text.match(/(\d+)\s*(?:w1|w2|...)\b/i): the digits of the leftmost match,
\* <<>> if there is none.
CountBefore(text, words) ==
  With([i \in DOMAIN text |-> LowerChar(text[i])], LAMBDA lower :
  LET ends(i) == i + DigitRun(text, i) + SpaceRun(text, i + DigitRun(text, i))
  IN
  LET matchAt(i) ==
        /\ IsDigit(text[i])
        /\ \E k \in DOMAIN words :
             /\ StartsAt(lower, ends(i), words[k])
             /\ BoundaryAfter(text, ends(i) + Len(words[k]) - 1)
  IN
  With({i \in DOMAIN text : matchAt(i)}, LAMBDA starts :
      IF starts = {} THEN <<>>
      ELSE SubSeq(text, Min(starts), Min(starts) + DigitRun(text, Min(starts)) - 1)))

\* REGEX.adults and REGEX.children: the words after the number.
adultWords == << <<"e", "r", "w", "a", "c", "h", "s", "e", "n", "e">>, <<"e", "r", "w", "a", "c", "h", "s", "e", "n", "e", "r">>, <<"p", "e", "r", "s", "o", "n", "e", "n">>, <<"p", "e", "r", "s", "o", "n">> >>
childWords == << <<"k", "i", "n", "d">>, <<"k", "i", "n", "d", "e", "r">> >>

\* utils.coerceInt: the default for null, undefined and "", and for what
\* parseInt cannot read; otherwise Math.max(0, n).
coerceInt(v, def) ==
  IF v.kind = "undefined" \/ (v.kind = "string" /\ v.text = <<>>) THEN def
  ELSE LET n == parseInt(IF v.kind = "string" THEN Str(trim(v.text)) ELSE v)
       IN  IF n.finite THEN (IF n.n > 0 THEN n.n ELSE 0) ELSE def

RECURSIVE SortTextsDescending(_)
\* The mutation of the sort that puts the greatest text first.
SortTextsDescending(S) ==
  IF S = {} THEN <<>>
  ELSE LET hi == CHOOSE x \in S : \A y \in S : y = x \/ TextLess(y, x)
       IN  <<hi>> \o SortTextsDescending(S \ {hi})

RECURSIVE SortTexts(_)
\* Array.from(set).sort(): ascending by UTF-16 code units.
SortTexts(S) ==
  IF S = {} THEN <<>>
  ELSE LET lo == CHOOSE x \in S : \A y \in S : y = x \/ TextLess(x, y)
       IN  <<lo>> \o SortTexts(S \ {lo})

\* extractWithRules
extractWithRules(rawText) ==
  IF rawText.kind # "string" \/ rawText.text = <<>>
  THEN [check_in |-> NoDate, check_out |-> NoDate, adults |-> 1, children |-> 0]
  ELSE
    LET text  == normalize(rawText.text)
        cand  == DateCandidates(rawText.text, 1, ".") \o DateCandidates(rawText.text, 1, "/")
        dates == {parseDateAny(Str(cand[i])) : i \in DOMAIN cand} \ {NoDate}
        sortedDates == SortTexts(dates)
        adultsMatch == CountBefore(text, adultWords)
        childrenMatch == CountBefore(text, childWords)
    IN  [check_in  |-> IF Len(sortedDates) >= 1 THEN sortedDates[1] ELSE NoDate,
         check_out |-> IF Len(sortedDates) >= 2 THEN sortedDates[2] ELSE NoDate,
         adults    |-> IF adultsMatch # <<>> THEN coerceInt(Str(adultsMatch), 1) ELSE 1,
         children  |-> IF childrenMatch # <<>> THEN coerceInt(Str(childrenMatch), 0) ELSE 0]

-----------------------------------------------------------------------------
(* src/server.js: validateBookingRequest, computeCheckAvailability.         *)

\* A message with the values interpolated into it.
Message(text, args) == [text |-> text, args |-> args]

\* String(n) for an integer n.
IntToText(n) == IF n < 0 THEN <<"-">> \o NatToText(0 - n) ELSE NatToText(n)

\* `${nights} ${nights === 1 ? "Nacht" : "Nächte"}` of computeCheckAvailability.
nightsSpoken(nights) ==
  IF ~nights.finite THEN <<"N", "a", "N", " ", "N", "a_uml", "c", "h", "t", "e">>
  ELSE IntToText(nights.n) \o <<" ">> \o (IF nights.n = 1 THEN <<"N", "a", "c", "h", "t">> ELSE <<"N", "a_uml", "c", "h", "t", "e">>)

\* `${nights} Nacht${nights > 1 ? "e" : ""}` of the tool handler of src/src/server.js.
nightsSpokenTool(nights) ==
  IntToText(nights) \o <<" ", "N", "a", "c", "h", "t">> \o (IF nights > 1 THEN <<"e">> ELSE <<>>)

\* `${nights} Nächte` of the tool handler of the OTA variant (part_002).
nightsSpokenOta(nights) == IntToText(nights) \o <<" ", "N", "a_uml", "c", "h", "t", "e">>

\* throw new ValidationError(message, field) / new BusinessLogicError(message, code)
ValidationError(message, field) ==
  [outcome |-> "error", name |-> "ValidationError", status |-> 400,
   message |-> message, field |-> field, code |-> "none"]
BusinessLogicError(message, code) ==
  [outcome |-> "error", name |-> "BusinessLogicError", status |-> 400,
   message |-> message, field |-> "none", code |-> code]

\* The mutation of validateBookingRequest that does not know the guest limit.
validateBookingRequestNoLimit(body) ==
  With(parseIntOr(Field(body, "adults"), 1), LAMBDA adults :
  With(parseIntOr(Field(body, "children"), 0), LAMBDA children :
  With(adults + children, LAMBDA totalGuests :
  With(IF adults >= 1 THEN <<>>
       ELSE <<ValidationError(Message("Mindestens 1 Erwachsener erforderlich", <<>>),
                              "adults")>>, LAMBDA e1 :
  With(IF children >= 0 THEN <<>>
       ELSE <<ValidationError(Message("Anzahl Kinder muss eine positive Zahl sein", <<>>),
                              "children")>>, LAMBDA e2 :
  With(IF TRUE THEN <<>>
       ELSE <<ValidationError(
                Message("Maximal {maxGuests} G{a_uml}ste pro Buchung m{o_uml}glich",
                        <<maxGuests>>),
                "total_guests")>>, LAMBDA e3 :
      [errors |-> e1 \o e2 \o e3, adults |-> adults, children |-> children,
       totalGuests |-> totalGuests]))))))

\* The mutation of validateBookingRequest that takes the guest limit as exclusive.
validateBookingRequestOffByOne(body) ==
  With(parseIntOr(Field(body, "adults"), 1), LAMBDA adults :
  With(parseIntOr(Field(body, "children"), 0), LAMBDA children :
  With(adults + children, LAMBDA totalGuests :
  With(IF adults >= 1 THEN <<>>
       ELSE <<ValidationError(Message("Mindestens 1 Erwachsener erforderlich", <<>>),
                              "adults")>>, LAMBDA e1 :
  With(IF children >= 0 THEN <<>>
       ELSE <<ValidationError(Message("Anzahl Kinder muss eine positive Zahl sein", <<>>),
                              "children")>>, LAMBDA e2 :
  With(IF totalGuests < maxGuests THEN <<>>
       ELSE <<ValidationError(
                Message("Maximal {maxGuests} G{a_uml}ste pro Buchung m{o_uml}glich",
                        <<maxGuests>>),
                "total_guests")>>, LAMBDA e3 :
      [errors |-> e1 \o e2 \o e3, adults |-> adults, children |-> children,
       totalGuests |-> totalGuests]))))))

\* validateBookingRequest: the errors in the order they are pushed.
validateBookingRequest(body) ==
  With(parseIntOr(Field(body, "adults"), 1), LAMBDA adults :
  With(parseIntOr(Field(body, "children"), 0), LAMBDA children :
  With(adults + children, LAMBDA totalGuests :
  With(IF adults >= 1 THEN <<>>
       ELSE <<ValidationError(Message("Mindestens 1 Erwachsener erforderlich", <<>>),
                              "adults")>>, LAMBDA e1 :
  With(IF children >= 0 THEN <<>>
       ELSE <<ValidationError(Message("Anzahl Kinder muss eine positive Zahl sein", <<>>),
                              "children")>>, LAMBDA e2 :
  With(IF totalGuests <= maxGuests THEN <<>>
       ELSE <<ValidationError(
                Message("Maximal {maxGuests} G{a_uml}ste pro Buchung m{o_uml}glich",
                        <<maxGuests>>),
                "total_guests")>>, LAMBDA e3 :
      [errors |-> e1 \o e2 \o e3, adults |-> adults, children |-> children,
       totalGuests |-> totalGuests]))))))

\* ROOMS_DEMO
ROOMS_DEMO == <<
  [code |-> "STD", rate |-> 80,  maxGuests |-> 2],
  [code |-> "DLX", rate |-> 110, maxGuests |-> 3],
  [code |-> "STE", rate |-> 150, maxGuests |-> 4] >>

\* new Date(text + "T00:00:00Z"): UTC midnight of a YYYY-MM-DD text (a day
\* beyond the end of the month running over), the Invalid Date otherwise.
UtcMidnightOf(text) ==
  IF IsoDateShape(text) /\ IsoMonth(text) \in 1..12 /\ IsoDay(text) \in 1..31
  THEN Instant(MakeDay(IsoYear(text), IsoMonth(text) - 1, IsoDay(text)) * MinutesPerDay)
  ELSE NaN

\* utils.calculateNights: Math.max(0, Math.round((b - a) / one day)); NaN if
\* either text is no date.
calculateNights(checkin, checkout) ==
  With(UtcMidnightOf(checkin), LAMBDA a :
  With(UtcMidnightOf(checkout), LAMBDA b :
  With((b.utc - a.utc) \div MinutesPerDay, LAMBDA n :
      IF ~a.valid \/ ~b.valid THEN NotANumber
      ELSE Finite(IF n > 0 THEN n ELSE 0))))

\* normalizeAndCheck
normalizeAndCheck(raw, type, baseDate) ==
  With(parseDateSmart(raw, type, baseDate), LAMBDA result :
      [valid |-> result.ok, date |-> result.date, reason |-> result.reason,
       needs_confirmation |-> result.needs_confirmation, notes |-> result.notes])

\* The mutation of the priced room that takes the discount of a long stay off
\* the total.
PricedRoomDiscounted(room, nights) ==
  [code |-> room.code, pricePerNight |-> room.rate,
   totalPrice |-> IF nights.finite
                  THEN Finite(room.rate * nights.n
                              - (IF nights.n >= 7 THEN (room.rate * nights.n + 5) \div 10 ELSE 0))
                  ELSE NotANumber,
   savings |-> IF nights.finite /\ nights.n >= 7
               THEN (room.rate * nights.n + 5) \div 10 ELSE 0]

\* A room of the result: the rate times the nights, and the discount of a
\* stay of a week or more.
PricedRoom(room, nights) ==
  [code |-> room.code, pricePerNight |-> room.rate,
   totalPrice |-> IF nights.finite THEN Finite(room.rate * nights.n) ELSE NotANumber,
   savings |-> IF nights.finite /\ nights.n >= 7
               THEN (room.rate * nights.n + 5) \div 10 ELSE 0]

\* computeCheckAvailability(payload): the object returned, or the error thrown.
computeCheckAvailability(payload) ==
  With(validateBookingRequest(payload), LAMBDA validation :
  With(LocalDay(Now), LAMBDA now :
  With(Field(payload, "from_date"), LAMBDA fromDate :
  With(Field(payload, "to_date"), LAMBDA toDate :
  With(Field(payload, "checkin_raw"), LAMBDA rawIn :
  With(Field(payload, "checkout_raw"), LAMBDA rawOut :
  With(~Truthy(fromDate) /\ Truthy(rawIn), LAMBDA parseIn :
  With(~Truthy(toDate) /\ Truthy(rawOut), LAMBDA parseOut :
  With(normalizeAndCheck(rawIn, "Anreise", now), LAMBDA parsedIn :
  With(normalizeAndCheck(rawOut, "Abreise", now), LAMBDA parsedOut :
  With(IF Truthy(fromDate) THEN fromDate.text
       ELSE IF parseIn THEN parsedIn.date ELSE NoDate, LAMBDA checkin :
  With(IF Truthy(toDate) THEN toDate.text
       ELSE IF parseOut THEN parsedOut.date ELSE NoDate, LAMBDA checkout :
  With(calculateNights(checkin, checkout), LAMBDA nights :
  With(ymd(now), LAMBDA today_ :
  With(SelectSeq(ROOMS_DEMO, LAMBDA r : r.maxGuests >= validation.totalGuests), LAMBDA availableRooms :
      IF validation.errors # <<>> THEN validation.errors[1]
      ELSE IF parseIn /\ ~parsedIn.valid
      THEN ValidationError(Message(parsedIn.reason, <<>>), "checkin_raw")
      ELSE IF parseOut /\ ~parsedOut.valid
      THEN ValidationError(Message(parsedOut.reason, <<>>), "checkout_raw")
      ELSE IF checkin = NoDate \/ checkout = NoDate
      THEN ValidationError(
             Message("Sowohl Anreise- als auch Abreisedatum sind erforderlich", <<>>), "none")
      ELSE IF nights.finite /\ nights.n <= 0
      THEN BusinessLogicError(
             Message("Das Abreisedatum muss nach dem Anreisedatum liegen", <<>>),
             "INVALID_DATE_RANGE")
      ELSE IF nights.finite /\ nights.n > maxNights
      THEN BusinessLogicError(
             Message("Maximal {maxNights} N{a_uml}chte pro Buchung m{o_uml}glich", <<maxNights>>),
             "MAX_NIGHTS_EXCEEDED")
      ELSE IF TextLess(checkin, today_)
      THEN BusinessLogicError(
             Message("Das Anreisedatum kann nicht in der Vergangenheit liegen", <<>>),
             "CHECKIN_IN_PAST")
      ELSE IF availableRooms = <<>>
      THEN BusinessLogicError(
             Message("F{u_uml}r {totalGuests} G{a_uml}ste sind leider keine Apartments verf{u_uml}gbar",
                     <<validation.totalGuests>>),
             "NO_ROOMS_AVAILABLE")
      ELSE [outcome |-> "ok",
            checkin |-> checkin, checkout |-> checkout, nights |-> nights,
            adults |-> validation.adults, children |-> validation.children,
            spoken |-> Message("F{u_uml}r {nights} vom {checkin} bis {checkout} haben wir {rooms} Apartments f{u_uml}r {guests} verf{u_uml}gbar.",
                               <<nightsSpoken(nights)>>),
            total_guests |-> validation.totalGuests,
            available_rooms |->
              [i \in DOMAIN availableRooms |-> PricedRoom(availableRooms[i], nights)],
            needs_confirmation |->
              (parseIn /\ parsedIn.needs_confirmation) \/ (parseOut /\ parsedOut.needs_confirmation),
            notes |-> (IF parseIn THEN parsedIn.notes ELSE <<>>)
                      \o (IF parseOut THEN parsedOut.notes ELSE <<>>)])))))))))))))))

-----------------------------------------------------------------------------
(* src/src/server.js: the handler of POST /retell/tool/check_availability.  *)

\* utils.nightsBetween: Math.max(0, Math.ceil(ms / 86400000)), 0 for an
\* Invalid Date.
nightsBetween(a, b) ==
  With(NativeDateParse(a), LAMBDA dateA :
  With(NativeDateParse(b), LAMBDA dateB :
  With(0 - ((dateA.utc - dateB.utc) \div MinutesPerDay), LAMBDA up :
      IF ~dateA.valid \/ ~dateB.valid THEN 0
      ELSE IF up > 0 THEN up ELSE 0)))

\* new Date(fromDate) >= new Date().setHours(0, 0, 0, 0)
isNotPastDate(fromDate) ==
  /\ NativeDateParse(fromDate).valid
  /\ NativeDateParse(fromDate).utc >= LocalMidnight(CivilFromDays(LocalDay(Now)).y,
                                                    CivilFromDays(LocalDay(Now)).m - 1,
                                                    CivilFromDays(LocalDay(Now)).d).utc

\* The handler: the JSON body of the response.
checkAvailabilityTool(body) ==
  With(parseDateAny(OrElse(Field(body, "from_date"),
                      OrElse(Field(body, "check_in"), Field(body, "start")))), LAMBDA fromDate :
  With(parseDateAny(OrElse(Field(body, "to_date"),
                      OrElse(Field(body, "check_out"), Field(body, "end")))), LAMBDA toDate :
  With(coerceInt(OrElse(Field(body, "adults"), Field(body, "guests")), 2), LAMBDA adults :
  With(coerceInt(OrElse(Field(body, "children"), Field(body, "kids")), 0), LAMBDA children :
  With(nightsBetween(fromDate, toDate), LAMBDA nights :
  With(adults + children, LAMBDA totalGuests :
  With(nights > 0 /\ nights <= maxNights, LAMBDA isValidStay :
  With(totalGuests > 0 /\ totalGuests <= maxGuests, LAMBDA hasCapacity :
  With(isNotPastDate(fromDate), LAMBDA notPast :
  With(isValidStay /\ hasCapacity /\ notPast, LAMBDA available :
  With(IF available
       THEN Message("F{u_uml}r {nights} vom {from} bis {to} haben wir passende Unterk{u_uml}nfte verf{u_uml}gbar.",
                    <<nightsSpokenTool(nights)>>)
       ELSE IF nights <= 0
       THEN Message("Das Abreisedatum muss nach dem Anreisedatum liegen.", <<>>)
       ELSE IF ~notPast
       THEN Message("Das Anreisedatum darf nicht in der Vergangenheit liegen.", <<>>)
       ELSE IF totalGuests > maxGuests
       THEN Message("F{u_uml}r {totalGuests} G{a_uml}ste k{o_uml}nnen wir leider keine Unterkunft anbieten. Maximum sind {maxGuests} G{a_uml}ste.",
                    <<totalGuests, maxGuests>>)
       ELSE Message("F{u_uml}r die gew{a_uml}hlten Daten ist derzeit nichts verf{u_uml}gbar.", <<>>), LAMBDA spoken :
      IF fromDate = NoDate \/ toDate = NoDate
      THEN [ok |-> FALSE, code |-> "MISSING_DATES", availability_ok |-> FALSE, nights |-> 0,
            spoken |-> Message("Damit ich die Verf{u_uml}gbarkeit pr{u_uml}fen kann, brauche ich sowohl An- als auch Abreisedatum.", <<>>)]
      ELSE [ok |-> TRUE, code |-> "none", availability_ok |-> available, nights |-> nights,
            spoken |-> spoken,
            details |-> [total_guests |-> totalGuests, adults |-> adults,
                         children |-> children, check_in |-> fromDate, check_out |-> toDate]])))))))))))

\* The handler of the OTA variant (part_002): check_in and check_out come
\* before from_date and to_date, and the nights are always "N{a_uml}chte".
checkAvailabilityToolOta(body) ==
  With(parseDateAny(OrElse(Field(body, "check_in"),
                      OrElse(Field(body, "from_date"), Field(body, "start")))), LAMBDA fromDate :
  With(parseDateAny(OrElse(Field(body, "check_out"),
                      OrElse(Field(body, "to_date"), Field(body, "end")))), LAMBDA toDate :
  With(coerceInt(OrElse(Field(body, "adults"), Field(body, "guests")), 2), LAMBDA adults :
  With(coerceInt(OrElse(Field(body, "children"), Field(body, "kids")), 0), LAMBDA children :
  With(nightsBetween(fromDate, toDate), LAMBDA nights :
  With(adults + children, LAMBDA totalGuests :
  With(nights > 0 /\ nights <= maxNights, LAMBDA isValidStay :
  With(totalGuests > 0 /\ totalGuests <= maxGuests, LAMBDA hasCapacity :
  With(isNotPastDate(fromDate), LAMBDA notPast :
  With(isValidStay /\ hasCapacity /\ notPast, LAMBDA available :
  With(IF available
       THEN Message("F{u_uml}r {nights} vom {from} bis {to} haben wir passende Unterk{u_uml}nfte verf{u_uml}gbar.",
                    <<nightsSpokenOta(nights)>>)
       ELSE IF nights <= 0
       THEN Message("Das Abreisedatum muss nach dem Anreisedatum liegen.", <<>>)
       ELSE IF ~notPast
       THEN Message("Das Anreisedatum darf nicht in der Vergangenheit liegen.", <<>>)
       ELSE IF totalGuests > maxGuests
       THEN Message("F{u_uml}r {totalGuests} G{a_uml}ste k{o_uml}nnen wir leider keine Unterkunft anbieten. Maximum sind {maxGuests} G{a_uml}ste.",
                    <<totalGuests, maxGuests>>)
       ELSE Message("F{u_uml}r die gew{a_uml}hlten Daten ist derzeit nichts verf{u_uml}gbar.", <<>>), LAMBDA spoken :
      IF fromDate = NoDate \/ toDate = NoDate
      THEN [ok |-> FALSE, code |-> "MISSING_DATES", availability_ok |-> FALSE, nights |-> 0,
            spoken |-> Message("Damit ich die Verf{u_uml}gbarkeit pr{u_uml}fen kann, brauche ich sowohl An- als auch Abreisedatum.", <<>>)]
      ELSE [ok |-> TRUE, code |-> "none", availability_ok |-> available, nights |-> nights,
            spoken |-> spoken,
            details |-> [total_guests |-> totalGuests, adults |-> adults,
                         children |-> children, check_in |-> fromDate, check_out |-> toDate]])))))))))))

-----------------------------------------------------------------------------
(* The quote: POST /retell/public/quote of src/src/server.js, and the       *)
(* variant of src/unnamed/part_005 (names ending in P5).                    *)

\* A JSON boolean.
Bool(b) == [kind |-> "boolean", b |-> b]

\* A destructuring default: const { name = def } = req.body.
FieldOr(body, name, def) == IF name \in DOMAIN body THEN body[name] ELSE def

\* CONFIG.booking.baseRate and CONFIG.booking.exchangeRate; the add-on.
baseRate == 90
exchangeRate == 48
clubCareAmount == 220
\* The surcharge used for a board type without a rate.
defaultBoardRate == 8

\* LOOKUP_TABLES.boardRates
boardRates == <<
  <<<<"o", "h", "n", "e", " ", "v", "e", "r", "p", "f", "l", "e", "g", "u", "n", "g">>, 0>>, <<<<"f", "r", "u_uml", "h", "s", "t", "u_uml", "c", "k">>, 8>>, <<<<"h", "a", "l", "b", "p", "e", "n", "s", "i", "o", "n">>, 18>>, <<<<"v", "o", "l", "l", "p", "e", "n", "s", "i", "o", "n">>, 28>> >>

\* utils.normalize(s): "" for what is no string, or is empty.
normalizeValue(v) == IF v.kind = "string" THEN normalize(v.text) ELSE <<>>

\* utils.euro: Math.round(n * 100) / 100, of a whole number.
euro(n) == (n * 100) \div 100

\* utils.nightsBetween on two values of a body; a value that is no string is
\* an Invalid Date.
nightsBetweenValues(a, b) ==
  IF a.kind = "string" /\ b.kind = "string" THEN nightsBetween(a.text, b.text) ELSE 0

\* LOOKUP_TABLES.boardRates.get(boardKey) || 8
boardRateOf(boardKey) ==
  IF MapGet(boardRates, boardKey) = Undefined \/ MapGet(boardRates, boardKey) = 0
  THEN defaultBoardRate
  ELSE MapGet(boardRates, boardKey)

\* nights * (baseRate + boardRate) + clubCareRate, the add-on charged per night.
quoteTotalAddOnPerNight(nights, boardRate, clubCareRate) ==
  nights * (baseRate + boardRate + clubCareRate)
quoteTotal(nights, boardRate, clubCareRate) ==
  nights * (baseRate + boardRate) + clubCareRate

\* The handler: the status and the JSON body of the response.
quote(body) ==
  With(FieldOr(body, "check_in", Absent), LAMBDA check_in :
  With(FieldOr(body, "check_out", Absent), LAMBDA check_out :
  With(nightsBetweenValues(check_in, check_out), LAMBDA nights :
  With(normalizeValue(FieldOr(body, "board", Str(<<"f", "r", "u_uml", "h", "s", "t", "u_uml", "c", "k">>))), LAMBDA boardKey :
  With(boardRateOf(boardKey), LAMBDA boardRate :
  With(IF Truthy(FieldOr(body, "club_care", Bool(FALSE))) THEN clubCareAmount ELSE 0, LAMBDA clubCareRate :
  With(euro(quoteTotal(nights, boardRate, clubCareRate)), LAMBDA totalEur :
      IF ~Truthy(check_in) \/ ~Truthy(check_out) \/ nights <= 0
      THEN [ok |-> FALSE, status |-> 400, error |-> "invalid_dates"]
      ELSE [ok |-> TRUE, status |-> 200,
            data |-> [total_eur |-> totalEur,
                      total_try |-> totalEur * exchangeRate,   \* Math.round of a whole number
                      fx |-> exchangeRate,
                      nights |-> nights,
                      breakdown |-> [basePerNight |-> baseRate,
                                     boardAdd |-> boardRate,
                                     clubCareAdd |-> clubCareRate,
                                     board |-> boardKey,
                                     adults |-> coerceInt(FieldOr(body, "adults", Num(2)), 1),
                                     children |-> coerceInt(FieldOr(body, "children", Num(0)), 0)]]])))))))

\* nightsBetween of part_005: Math.max(0, Math.ceil(ms / 86400000)), which is
\* NaN for an Invalid Date.
nightsBetweenP5(a, b) ==
  IF a.kind # "string" \/ b.kind # "string" THEN NotANumber
  ELSE
    With(NativeDateParse(a.text), LAMBDA dateA :
    With(NativeDateParse(b.text), LAMBDA dateB :
    With(0 - ((dateA.utc - dateB.utc) \div MinutesPerDay), LAMBDA up :
        IF ~dateA.valid \/ ~dateB.valid THEN NotANumber
        ELSE Finite(IF up > 0 THEN up ELSE 0))))

\* String(v), of a string or undefined.
StringOf(v) == IF v.kind = "string" THEN v.text ELSE <<"u", "n", "d", "e", "f", "i", "n", "e", "d">>

\* Number(v): a number is itself, a boolean 0 or 1, a string of digits its
\* value ("" is 0); anything else is NaN.
Number(v) ==
  IF v.kind = "number" THEN Finite(v.n)
  ELSE IF v.kind = "boolean" THEN Finite(IF v.b THEN 1 ELSE 0)
  ELSE IF v.kind = "string" /\ trim(v.text) = <<>> THEN Finite(0)
  ELSE IF v.kind = "string" /\ DigitRun(trim(v.text), 1) = Len(trim(v.text))
  THEN Finite(parseIntDigits(trim(v.text)))
  ELSE NotANumber

\* boardAddMap[String(board).toLowerCase()] ?? 8
boardAddP5(board) ==
  IF MapGet(boardRates, toLowerCase(StringOf(board))) = Undefined THEN defaultBoardRate
  ELSE MapGet(boardRates, toLowerCase(StringOf(board)))

\* The handler of part_005.
quoteP5(body) ==
  With(FieldOr(body, "check_in", Absent), LAMBDA check_in :
  With(FieldOr(body, "check_out", Absent), LAMBDA check_out :
  With(FieldOr(body, "board", Str(<<"f", "r", "u_uml", "h", "s", "t", "u_uml", "c", "k">>)), LAMBDA board :
  With(nightsBetweenP5(check_in, check_out), LAMBDA nights :
  With(boardAddP5(board), LAMBDA boardAdd :
  With(IF Truthy(FieldOr(body, "club_care", Bool(FALSE))) THEN clubCareAmount ELSE 0, LAMBDA clubCareAdd :
  With(IF nights.finite THEN Finite(euro(quoteTotal(nights.n, boardAdd, clubCareAdd)))
       ELSE NotANumber, LAMBDA total_eur :
      IF ~Truthy(check_in) \/ ~Truthy(check_out) \/ (nights.finite /\ nights.n <= 0)
      THEN [ok |-> FALSE, status |-> 400, error |-> "invalid dates"]
      ELSE [ok |-> TRUE, status |-> 200,
            data |-> [total_eur |-> total_eur,
                      total_try |-> IF total_eur.finite THEN Finite(total_eur.n * exchangeRate)
                                    ELSE NotANumber,
                      fx |-> exchangeRate,
                      nights |-> nights,
                      breakdown |-> [basePerNight |-> baseRate,
                                     boardAdd |-> boardAdd,
                                     clubCareAdd |-> clubCareAdd,
                                     board |-> board,
                                     adults |-> Number(FieldOr(body, "adults", Num(2))),
                                     children |-> Number(FieldOr(body, "children", Num(0)))]]])))))))

-----------------------------------------------------------------------------
(* The configuration, CONFIG, that the server reads from process.env when   *)
(* it starts, and the HotelRunner integration.                              *)

\* process.env with nothing set: a variable that is not set reads as "".
Unconfigured ==
  [HOTELRUNNER_ENABLED |-> <<>>, HOTELRUNNER_API_KEY |-> <<>>,
   HOTELRUNNER_PROPERTY_ID |-> <<>>, HOTELRUNNER_HR_ID |-> <<>>,
   HOTELRUNNER_TOKEN |-> <<>>, TOOL_SECRET |-> <<>>]

\* CONFIG.hotelrunner.enabled: process.env.HOTELRUNNER_ENABLED === "true"
hotelrunnerEnabled == env.HOTELRUNNER_ENABLED = <<"t", "r", "u", "e">>
\* CONFIG.hotelrunner.apiKey: process.env.HOTELRUNNER_API_KEY || ""
hotelrunnerApiKey == env.HOTELRUNNER_API_KEY
\* CONFIG.hotelrunner.propertyId: parseInt(process.env.HOTELRUNNER_PROPERTY_ID) || 0
hotelrunnerPropertyId == parseIntOr(Str(env.HOTELRUNNER_PROPERTY_ID), 0)
\* CONFIG.hotelrunner.hrId and CONFIG.hotelrunner.token of the OTA variant.
hotelrunnerHrId == env.HOTELRUNNER_HR_ID
hotelrunnerToken == env.HOTELRUNNER_TOKEN

\* What a call of a function gives: a value, or an exception.
Returned(v) == [threw |-> FALSE, value |-> v]
Thrown == [threw |-> TRUE]
JsonNull == [kind |-> "null"]

\* callHotelRunner of src/src/server.js; outcome is what fetch meets: a
\* response whose JSON body carries (or lacks) reservation_id, the body
\* null, a status that is not ok, or an exception of fetch or of json().
callHotelRunner(outcome) ==
  IF ~hotelrunnerEnabled \/ hotelrunnerApiKey = <<>> THEN Thrown
  ELSE IF outcome.kind \in {"http_error", "exception"} THEN Thrown
  ELSE IF outcome.kind = "null" THEN Returned(JsonNull)
  ELSE Returned([kind |-> "object", reservation_id |-> outcome.reservation_id])

\* The variant that answers with the reservation id whatever the call gave.
tryHotelRunnerUnguarded(outcome, bookingId) ==
  IF hotelrunnerEnabled /\ hotelrunnerApiKey # <<>> /\ hotelrunnerPropertyId # 0
  THEN With(callHotelRunner(outcome), LAMBDA hrResponse :
         IF hrResponse.threw \/ hrResponse.value.kind = "null" THEN Absent
         ELSE hrResponse.value.reservation_id)
  ELSE bookingId

\* "Try HotelRunner Integration" of commit_booking: the booking id after it.
\* Reading reservation_id of null throws, and the catch keeps the local id.
tryHotelRunner(outcome, bookingId) ==
  IF hotelrunnerEnabled /\ hotelrunnerApiKey # <<>> /\ hotelrunnerPropertyId # 0
  THEN With(callHotelRunner(outcome), LAMBDA hrResponse :
         IF hrResponse.threw \/ hrResponse.value.kind = "null" THEN bookingId
         ELSE OrElse(hrResponse.value.reservation_id, bookingId))
  ELSE bookingId

\* `bk_${Date.now()}_${Math.random().toString(36).substr(2, 8)}`; random is
\* the text that Math.random gives, the clock counts whole minutes.
localBookingId(random) ==
  Str(<<"b", "k", "_">> \o NatToText(Now.utc * 6) \o <<"0", "0", "0", "0">> \o <<"_">> \o random)

\* The booking that commit_booking answers with.
bookingOf(body, bookingId) ==
  [booking_id |-> bookingId,
   email      |-> trim(toLowerCase(Field(body, "email").text)),
   check_in   |-> Field(body, "check_in"),
   check_out  |-> Field(body, "check_out"),
   adults     |-> coerceInt(Field(body, "adults"), 1),
   children   |-> coerceInt(Field(body, "children"), 0),
   board      |-> toLowerCase(StringOf(OrElse(Field(body, "board"), Str(<<"f", "r", "u_uml", "h", "s", "t", "u_uml", "c", "k">>)))),
   club_care  |-> Truthy(Field(body, "club_care")),
   created_at |-> Now,
   source     |-> IF hotelrunnerEnabled THEN "hotelrunner" ELSE "mock"]

\* POST /retell/tool/commit_booking of src/src/server.js, after the secret
\* check. An email that is truthy and no string has no includes: the outer
\* catch answers 500.
commitBooking(body, outcome, random) ==
  With(Field(body, "email"), LAMBDA email :
    IF ~Truthy(email)
    THEN [ok |-> FALSE, status |-> 400, error |-> "invalid_email"]
    ELSE IF email.kind # "string"
    THEN [ok |-> FALSE, status |-> 500, error |-> "internal_error"]
    ELSE IF ~Includes(email.text, <<"@">>)
    THEN [ok |-> FALSE, status |-> 400, error |-> "invalid_email"]
    ELSE [ok |-> TRUE, status |-> 200,
          data |-> bookingOf(body, tryHotelRunner(outcome, localBookingId(random)))])

\* callHotelRunner of the OTA variant (part_002): the reservation id is what
\* stands between the ReservationID tags of the answer, null without them or
\* with nothing between them.
callHotelRunnerOta(outcome) ==
  IF ~hotelrunnerEnabled \/ hotelrunnerHrId = <<>> \/ hotelrunnerToken = <<>> THEN Thrown
  ELSE IF outcome.kind \in {"http_error", "exception"} THEN Thrown
  ELSE IF outcome.kind = "response" /\ Truthy(outcome.reservation_id)
  THEN Returned([kind |-> "object", reservation_id |-> outcome.reservation_id])
  ELSE Returned([kind |-> "object", reservation_id |-> JsonNull])

\* "Try OTA-XML HotelRunner Integration" of commit_booking (part_002).
tryHotelRunnerOta(outcome, bookingId) ==
  IF hotelrunnerEnabled /\ hotelrunnerHrId # <<>> /\ hotelrunnerToken # <<>>
  THEN With(callHotelRunnerOta(outcome), LAMBDA hrResponse :
         IF hrResponse.threw THEN bookingId
         ELSE IF Truthy(hrResponse.value.reservation_id)
         THEN hrResponse.value.reservation_id
         ELSE bookingId)
  ELSE bookingId

\* POST /retell/tool/commit_booking of the OTA variant (part_002).
commitBookingOta(body, outcome, random) ==
  With(Field(body, "email"), LAMBDA email :
    IF ~Truthy(email)
    THEN [ok |-> FALSE, status |-> 400, error |-> "invalid_email"]
    ELSE IF email.kind # "string"
    THEN [ok |-> FALSE, status |-> 500, error |-> "internal_error"]
    ELSE IF ~Includes(email.text, <<"@">>)
    THEN [ok |-> FALSE, status |-> 400, error |-> "invalid_email"]
    ELSE [ok |-> TRUE, status |-> 200,
          data |-> bookingOf(body, tryHotelRunnerOta(outcome, localBookingId(random)))])

-----------------------------------------------------------------------------
(* The secret checks in front of the routes under /retell/tool, and the     *)
(* routing of Express that brings a request to them.                        *)

\* req.headers: the headers that the checks read; Absent is a header that
\* was not sent.
HeadersOf(authorization, toolSecretHeader, xToolSecret) ==
  ("authorization" :> authorization) @@ ("tool-secret" :> toolSecretHeader)
  @@ ("x-tool-secret" :> xToolSecret)

\* String.prototype.startsWith
startsWith(s, lit) == StartsAt(s, 1, lit)

\* Express (case sensitive routing and strict routing are off unless the
\* application sets them): the path matches the route whatever its case, with
\* or without a trailing slash.
routeMatches(path, route) ==
  toLowerCase(path) = route \/ toLowerCase(path) = route \o <<"/">>

\* CONFIG.security.toolSecret of src/src/server.js: process.env.TOOL_SECRET || ""
securityToolSecret == env.TOOL_SECRET
\* CONFIG.secrets.tool of src/server.js: the same, trimmed (TOOLSECRET is not set).
secretsTool == trim(env.TOOL_SECRET)

\* The secret that requireToolSecret of src/src/server.js reads: the Bearer
\* token of Authorization, else the tool-secret header; <<>> is null or "".
providedSecret(headers) ==
  IF Truthy(headers["authorization"]) /\ startsWith(headers["authorization"].text, <<"B", "e", "a", "r", "e", "r", " ">>)
  THEN trim(SubSeq(headers["authorization"].text, 8, Len(headers["authorization"].text)))
  ELSE IF Truthy(headers["tool-secret"]) THEN trim(headers["tool-secret"].text)
  ELSE <<>>

\* requireToolSecret of src/src/server.js: next(), or the answer it sends.
requireToolSecret(headers) ==
  IF securityToolSecret = <<>>
  THEN [next |-> FALSE, status |-> 503, error |-> "service_unavailable"]
  ELSE IF providedSecret(headers) = <<>> \/ providedSecret(headers) # securityToolSecret
  THEN [next |-> FALSE, status |-> 401, error |-> "unauthorized"]
  ELSE [next |-> TRUE]

\* (req.headers["tool-secret"] || "").toString().trim()
incomingSecret(headers) ==
  IF Truthy(headers["tool-secret"]) THEN trim(headers["tool-secret"].text) ELSE <<>>

\* checkSecret of src/server.js, used for every request: it looks at the
\* path as the request wrote it.
checkSecret(path, headers) ==
  IF path = <<"/", "r", "e", "t", "e", "l", "l", "/", "t", "o", "o", "l">> \/ startsWith(path, <<"/", "r", "e", "t", "e", "l", "l", "/", "t", "o", "o", "l", "/">>)
  THEN IF secretsTool = <<>>
       THEN [next |-> FALSE, status |-> 500, error |-> "Server Configuration Error"]
       ELSE IF incomingSecret(headers) # secretsTool
       THEN [next |-> FALSE, status |-> 401, error |-> "Unauthorized"]
       ELSE [next |-> TRUE]
  ELSE [next |-> TRUE]

\* The token that requireToolSecret of the tool router (routes/public.js)
\* reads: Authorization, else x-tool-secret; the Bearer token trimmed, any
\* other header as it is.
routerToken(headers) ==
  With(OrElse(headers["authorization"], headers["x-tool-secret"]), LAMBDA header :
    IF header.kind # "string" THEN <<>>
    ELSE IF startsWith(header.text, <<"B", "e", "a", "r", "e", "r", " ">>)
    THEN trim(SubSeq(header.text, 8, Len(header.text)))
    ELSE header.text)

\* requireToolSecret of the tool router (routes/public.js).
routerRequireToolSecret(headers) ==
  IF env.TOOL_SECRET = <<>>
  THEN [next |-> FALSE, status |-> 503, error |-> "config_error"]
  ELSE IF routerToken(headers) = <<>> \/ routerToken(headers) # env.TOOL_SECRET
  THEN [next |-> FALSE, status |-> 401, error |-> "unauthorized"]
  ELSE [next |-> TRUE]

\* What a request met: the answer of a secret check, a handler, or no route.
Refused(check, by) == [by |-> by, status |-> check.status, error |-> check.error]
Handled(route, answer) == [by |-> "handler", route |-> route, answer |-> answer]
NotFound == [by |-> "notFound", status |-> 404]

\* A POST request to the application of src/src/server.js: the route that
\* matches runs its middleware, then its handler.
appToolServer(path, headers, body, outcome, random) ==
  IF routeMatches(path, <<"/", "r", "e", "t", "e", "l", "l", "/", "t", "o", "o", "l", "/", "c", "h", "e", "c", "k", "_", "a", "v", "a", "i", "l", "a", "b", "i", "l", "i", "t", "y">>)
  THEN IF requireToolSecret(headers).next
       THEN Handled("/retell/tool/check_availability", checkAvailabilityTool(body))
       ELSE Refused(requireToolSecret(headers), "requireToolSecret")
  ELSE IF routeMatches(path, <<"/", "r", "e", "t", "e", "l", "l", "/", "p", "u", "b", "l", "i", "c", "/", "q", "u", "o", "t", "e">>)
  THEN Handled("/retell/public/quote", quote(body))
  ELSE IF routeMatches(path, <<"/", "r", "e", "t", "e", "l", "l", "/", "t", "o", "o", "l", "/", "c", "o", "m", "m", "i", "t", "_", "b", "o", "o", "k", "i", "n", "g">>)
  THEN IF requireToolSecret(headers).next
       THEN Handled("/retell/tool/commit_booking", commitBooking(body, outcome, random))
       ELSE Refused(requireToolSecret(headers), "requireToolSecret")
  ELSE NotFound

\* A POST request to the application of src/server.js: checkSecret, then the
\* route that matches.
appServer(path, headers, body) ==
  IF ~checkSecret(path, headers).next
  THEN Refused(checkSecret(path, headers), "checkSecret")
  ELSE IF routeMatches(path, <<"/", "r", "e", "t", "e", "l", "l", "/", "p", "u", "b", "l", "i", "c", "/", "c", "h", "e", "c", "k", "_", "a", "v", "a", "i", "l", "a", "b", "i", "l", "i", "t", "y">>)
  THEN Handled("/retell/public/check_availability", computeCheckAvailability(body))
  ELSE IF routeMatches(path, <<"/", "r", "e", "t", "e", "l", "l", "/", "t", "o", "o", "l", "/", "c", "h", "e", "c", "k", "_", "a", "v", "a", "i", "l", "a", "b", "i", "l", "i", "t", "y">>)
  THEN Handled("/retell/tool/check_availability", computeCheckAvailability(body))
  ELSE NotFound

\* A POST request to the tool router (routes/public.js), path being what
\* follows the place where the router is mounted.
appToolRouter(path, headers, body) ==
  IF ~routerRequireToolSecret(headers).next
  THEN Refused(routerRequireToolSecret(headers), "requireToolSecret")
  ELSE IF routeMatches(path, <<"/", "e", "c", "h", "o">>)
  THEN Handled("/echo", [ok |-> TRUE, payload |-> body])
  ELSE NotFound

-----------------------------------------------------------------------------
(* The requests the model serves.                                           *)

\* The server clock runs from StartDay (Wednesday 2024-02-28, so that the leap
\* day and the days after it are met) for ClockDays days, in steps of half a
\* day; the server's timezone is west of, at, or east of UTC.
StartDay == DaysFromCivil(2024, 2, 28)
ClockDays == 3
HalfDay == MinutesPerDay \div 2
TimeZones == {0 - 300, 0, 120}

\* The largest counts of guests a request names.
MaxAdults == 11
MaxChildren == 2
\* The largest count a sentence names.
MaxCount == 3

\* Texts for the date parser.
RelativeTexts == { <<"h", "e", "u", "t", "e">>, <<"m", "o", "r", "g", "e", "n">>, <<"u_uml", "b", "e", "r", "m", "o", "r", "g", "e", "n">>, <<"u", "e", "b", "e", "r", "m", "o", "r", "g", "e", "n">>,
                   <<"H", "e", "u", "t", "e">>, <<"U_UML", "b", "e", "r", "m", "o", "r", "g", "e", "n">> }
DmText(d, m) == NatToText(d) \o <<".">> \o NatToText(m)
DmTexts == {DmText(d, m) : d \in 1..31, m \in 1..12}
IsoYears == {1899, 1900, 2000, 2024, 2100, 2101}
IsoTexts == {YmdText(y, m, d) : y \in IsoYears, m \in 1..12, d \in {1, 28, 29, 30, 31}}
OtherTexts == { <<"i", "n", " ", "3", " ", "t", "a", "g", "e", "n">>, <<"i", "n", " ", "4", "0", "0", " ", "t", "a", "g", "e", "n">>, <<"a", "m", " ", "m", "o", "n", "t", "a", "g">>, <<"f", "r", "e", "i", "t", "a", "g">>, <<"n", "a_uml", "c", "h", "s", "t", "e", "n", " ", "m", "o", "n", "t", "a", "g">>,
                <<"1", ".", "3", ".", "2", "0", "2", "4">>, <<"2", "9", ".", "0", "2", ".", "2", "4">>, <<"3", "1", ".", "4", ".", "2", "0", "2", "4">>, <<"2", "9", ".", "2", ".">>,
                <<"2", "0", ".", " ", "o", "k", "t", "o", "b", "e", "r", " ", "2", "0", "2", "5">>, <<"1", ".", " ", "m", "a_uml", "r", "z">>, <<"2", "7", ".", " ", "f", "e", "b", "r", "u", "a", "r">>,
                <<"z", "w", "e", "i", "t", "e", "r", " ", "a", "p", "r", "i", "l">>, <<"e", "r", "s", "t", "e", " ", "m", "a_uml", "r", "z">>, <<"z", "w", "e", "i", " ", "d", "r", "e", "i">>,
                <<"f", "o", "o">>, <<"3", "/", "1", "5", "/", "2", "0", "2", "4">>, <<" ">> }
\* Dates that no calendar has, ISO-shaped and dotted, among real ones.
ImpossibleTexts ==
  {<<"2", "0", "2", "5", "-", "0", "2", "-", "3", "0">>, <<"2", "0", "2", "5", "-", "1", "3", "-", "0", "1">>, <<"3", "1", ".", "0", "2", ".", "2", "0", "2", "5">>, <<"2", "0", "2", "5", "-", "0", "2", "-", "2", "9">>, <<"2", "0", "2", "5", "-", "0", "4", "-", "3", "1">>,
   <<"2", "0", "2", "5", "-", "0", "0", "-", "1", "0">>, <<"2", "0", "2", "5", "-", "1", "2", "-", "3", "2">>, <<"1", ".", "1", "3", ".", "2", "0", "2", "5">>, <<"2", ".", "3", "1", ".", "2", "0", "2", "5">>, <<"3", "1", ".", "4", ".", "2", "0", "2", "5">>,
   <<"3", "2", ".", "1", ".", "2", "0", "2", "5">>, <<"2", "9", ".", "2", ".", "2", "0", "2", "5">>, <<"3", "0", ".", "0", "2", ".", "2", "0", "2", "4">>}
PossibleTexts == {<<"2", "0", "2", "4", "-", "0", "2", "-", "2", "9">>, <<"2", "9", ".", "0", "2", ".", "2", "0", "2", "4">>, <<"3", "1", ".", "1", "2", ".", "2", "0", "2", "5">>}

\* The weekdays, Sunday first, as they are said, and the ways to ask for one.
WeekdayWords == << <<"s", "o", "n", "n", "t", "a", "g">>, <<"m", "o", "n", "t", "a", "g">>, <<"d", "i", "e", "n", "s", "t", "a", "g">>, <<"m", "i", "t", "t", "w", "o", "c", "h">>,
                   <<"d", "o", "n", "n", "e", "r", "s", "t", "a", "g">>, <<"f", "r", "e", "i", "t", "a", "g">>, <<"s", "a", "m", "s", "t", "a", "g">> >>
WeekdayLeads == {<<"n", "a_uml", "c", "h", "s", "t", "e", "n", " ">>, <<"k", "o", "m", "m", "e", "n", "d", "e", "n", " ">>, <<"a", "m", " ">>, <<>>}
WeekdayTexts ==
  {lead \o WeekdayWords[i] : lead \in WeekdayLeads, i \in DOMAIN WeekdayWords}
  \cup {<<"N", "a_uml", "c", "h", "s", "t", "e", "n", " ", "F", "r", "e", "i", "t", "a", "g">>, <<"n", "a", "e", "c", "h", "s", "t", "e", "n", " ", "f", "r", "e", "i", "t", "a", "g">>, <<"A", "m", " ", "M", "o", "n", "t", "a", "g">>}

\* "in N Tagen" for the days that the rule accepts and the ones around them.
InDaysCounts == {0, 1, 2, 7, 30, 99, 100, 364, 365, 400}
InDaysText(n) == <<"i", "n", " ">> \o NatToText(n) \o <<" ", "T", "a", "g", "e", "n">>
InDaysTexts == {InDaysText(n) : n \in InDaysCounts} \cup {<<"i", "n", " ", "1", " ", "T", "a", "g">>, <<"I", "n", " ", "1", "4", " ", "T", "a", "g", "e", "n">>}

\* Month names and relative words with an umlaut: the spelling with the
\* umlaut and the spelling with ae, oe, ue.
UmlautPairs ==
  {<<<<"2", "0", ".", " ", "M", "a_uml", "r", "z", " ", "2", "0", "2", "6">>, <<"2", "0", ".", " ", "M", "a", "e", "r", "z", " ", "2", "0", "2", "6">>>>, <<<<"1", ".", " ", "M", "a_uml", "r", "z">>, <<"1", ".", " ", "M", "a", "e", "r", "z">>>>,
   <<<<"u_uml", "b", "e", "r", "m", "o", "r", "g", "e", "n">>, <<"u", "e", "b", "e", "r", "m", "o", "r", "g", "e", "n">>>>, <<<<"U_UML", "b", "e", "r", "m", "o", "r", "g", "e", "n">>, <<"U", "e", "b", "e", "r", "m", "o", "r", "g", "e", "n">>>>,
   <<<<"5", ".", " ", "J", "a_uml", "n", "n", "e", "r", " ", "2", "0", "2", "6">>, <<"5", ".", " ", "J", "a", "e", "n", "n", "e", "r", " ", "2", "0", "2", "6">>>>, <<<<"3", ".", " ", "m", "a_uml", "r", "z", " ", "2", "0", "2", "5">>, <<"3", ".", " ", "m", "a", "e", "r", "z", " ", "2", "0", "2", "5">>>>}
UmlautTexts == {p[1] : p \in UmlautPairs} \cup {p[2] : p \in UmlautPairs}

\* Texts for normalizeDate.
NormalizeInputs ==
  {Absent, Str(<<>>)}
  \cup {Str(t) : t \in RelativeTexts \cup WeekdayTexts \cup InDaysTexts
                       \cup ImpossibleTexts \cup PossibleTexts
                       \cup {<<"2", "0", ".", " ", "M", "a_uml", "r", "z", " ", "2", "0", "2", "6">>, <<"2", "0", ".", " ", "M", "a", "e", "r", "z", " ", "2", "0", "2", "6">>, <<"2", "0", ".", "1", "0", ".">>, <<"2", "0", ".", "1", "0">>,
                             <<"f", "r", ".">>, <<"f", "o", "o">>}}

\* Dates said in words: a day as a number word, then a month as a number word
\* or by its name.  Each with the day and the month that it means.
DayWords == {<<<<"z", "w", "e", "i">>, 2>>, <<<<"z", "w", "e", "i", "t", "e", "r">>, 2>>, <<<<"z", "e", "h", "n", "t", "e", "n">>, 10>>, <<<<"a", "c", "h", "t", "u", "n", "d", "z", "w", "a", "n", "z", "i", "g", "s", "t", "e">>, 28>>,
             <<<<"n", "e", "u", "n", "u", "n", "d", "z", "w", "a", "n", "z", "i", "g", "s", "t", "e", "r">>, 29>>, <<<<"e", "i", "n", "u", "n", "d", "d", "r", "e", "i", "sz", "i", "g", "s", "t", "e">>, 31>>}
MonthNumberWords == {<<<<"z", "w", "e", "i", "t", "e", "r">>, 2>>, <<<<"d", "r", "e", "i">>, 3>>, <<<<"v", "i", "e", "r", "t", "e", "r">>, 4>>, <<<<"z", "e", "h", "n", "t", "e", "r">>, 10>>, <<<<"Z", "w", "o_uml", "l", "f", "t", "e", "n">>, 12>>}
MonthNames == {<<<<"F", "e", "b", "r", "u", "a", "r">>, 2>>, <<<<"M", "a_uml", "r", "z">>, 3>>, <<<<"a", "p", "r", "i", "l">>, 4>>, <<<<"d", "e", "z", ".">>, 12>>}
WordDate(day, month, named) ==
  [text |-> day[1] \o <<" ">> \o month[1], d |-> day[2], m |-> month[2], named |-> named]
WordDates ==
  {WordDate(day, month, FALSE) : day \in DayWords, month \in MonthNumberWords}
  \cup {WordDate(day, month, TRUE) : day \in DayWords, month \in MonthNames}
WordDateTexts == {w.text : w \in WordDates}

\* The German number words for the days of a month: the cardinal word of each
\* day 1..31, and its ordinal word without the ending ("erst", "zweit", ...,
\* "zwanzigst", ...), to which the endings -e, -en, -er, -es are added.
CardinalWords == <<
  <<"e", "i", "n", "s">>, <<"z", "w", "e", "i">>, <<"d", "r", "e", "i">>, <<"v", "i", "e", "r">>, <<"f", "u_uml", "n", "f">>, <<"s", "e", "c", "h", "s">>, <<"s", "i", "e", "b", "e", "n">>, <<"a", "c", "h", "t">>, <<"n", "e", "u", "n">>,
  <<"z", "e", "h", "n">>, <<"e", "l", "f">>, <<"z", "w", "o_uml", "l", "f">>, <<"d", "r", "e", "i", "z", "e", "h", "n">>, <<"v", "i", "e", "r", "z", "e", "h", "n">>, <<"f", "u_uml", "n", "f", "z", "e", "h", "n">>, <<"s", "e", "c", "h", "z", "e", "h", "n">>,
  <<"s", "i", "e", "b", "z", "e", "h", "n">>, <<"a", "c", "h", "t", "z", "e", "h", "n">>, <<"n", "e", "u", "n", "z", "e", "h", "n">>, <<"z", "w", "a", "n", "z", "i", "g">>, <<"e", "i", "n", "u", "n", "d", "z", "w", "a", "n", "z", "i", "g">>,
  <<"z", "w", "e", "i", "u", "n", "d", "z", "w", "a", "n", "z", "i", "g">>, <<"d", "r", "e", "i", "u", "n", "d", "z", "w", "a", "n", "z", "i", "g">>, <<"v", "i", "e", "r", "u", "n", "d", "z", "w", "a", "n", "z", "i", "g">>, <<"f", "u_uml", "n", "f", "u", "n", "d", "z", "w", "a", "n", "z", "i", "g">>,
  <<"s", "e", "c", "h", "s", "u", "n", "d", "z", "w", "a", "n", "z", "i", "g">>, <<"s", "i", "e", "b", "e", "n", "u", "n", "d", "z", "w", "a", "n", "z", "i", "g">>, <<"a", "c", "h", "t", "u", "n", "d", "z", "w", "a", "n", "z", "i", "g">>, <<"n", "e", "u", "n", "u", "n", "d", "z", "w", "a", "n", "z", "i", "g">>,
  <<"d", "r", "e", "i", "sz", "i", "g">>, <<"e", "i", "n", "u", "n", "d", "d", "r", "e", "i", "sz", "i", "g">> >>
OrdinalStems == <<
  <<"e", "r", "s", "t">>, <<"z", "w", "e", "i", "t">>, <<"d", "r", "i", "t", "t">>, <<"v", "i", "e", "r", "t">>, <<"f", "u_uml", "n", "f", "t">>, <<"s", "e", "c", "h", "s", "t">>, <<"s", "i", "e", "b", "t">>, <<"a", "c", "h", "t">>,
  <<"n", "e", "u", "n", "t">>, <<"z", "e", "h", "n", "t">>, <<"e", "l", "f", "t">>, <<"z", "w", "o_uml", "l", "f", "t">>, <<"d", "r", "e", "i", "z", "e", "h", "n", "t">>, <<"v", "i", "e", "r", "z", "e", "h", "n", "t">>, <<"f", "u_uml", "n", "f", "z", "e", "h", "n", "t">>,
  <<"s", "e", "c", "h", "z", "e", "h", "n", "t">>, <<"s", "i", "e", "b", "z", "e", "h", "n", "t">>, <<"a", "c", "h", "t", "z", "e", "h", "n", "t">>, <<"n", "e", "u", "n", "z", "e", "h", "n", "t">>, <<"z", "w", "a", "n", "z", "i", "g", "s", "t">>,
  <<"e", "i", "n", "u", "n", "d", "z", "w", "a", "n", "z", "i", "g", "s", "t">>, <<"z", "w", "e", "i", "u", "n", "d", "z", "w", "a", "n", "z", "i", "g", "s", "t">>, <<"d", "r", "e", "i", "u", "n", "d", "z", "w", "a", "n", "z", "i", "g", "s", "t">>, <<"v", "i", "e", "r", "u", "n", "d", "z", "w", "a", "n", "z", "i", "g", "s", "t">>,
  <<"f", "u_uml", "n", "f", "u", "n", "d", "z", "w", "a", "n", "z", "i", "g", "s", "t">>, <<"s", "e", "c", "h", "s", "u", "n", "d", "z", "w", "a", "n", "z", "i", "g", "s", "t">>, <<"s", "i", "e", "b", "e", "n", "u", "n", "d", "z", "w", "a", "n", "z", "i", "g", "s", "t">>, <<"a", "c", "h", "t", "u", "n", "d", "z", "w", "a", "n", "z", "i", "g", "s", "t">>,
  <<"n", "e", "u", "n", "u", "n", "d", "z", "w", "a", "n", "z", "i", "g", "s", "t">>, <<"d", "r", "e", "i", "sz", "i", "g", "s", "t">>, <<"e", "i", "n", "u", "n", "d", "d", "r", "e", "i", "sz", "i", "g", "s", "t">> >>
OrdinalEndings == {<<"e">>, <<"e", "n">>, <<"e", "r">>, <<"e", "s">>}
NumberWordForms ==
  {<<CardinalWords[d], d>> : d \in 1..31}
  \cup {<<OrdinalStems[d] \o e, d>> : d \in 1..31, e \in OrdinalEndings}
WordInputs == {Str(f[1]) : f \in NumberWordForms} \cup {Absent, Str(<<>>), Str(<<"z", "w", "e", "i", "Z", "e", "h", "n", "t", "e">>), Str(<<"f", "o", "o">>)}

\* Dates said with the name of the month and without a year.
LongYearlessTexts == {<<"2", "7", ".", " ", "f", "e", "b", "r", "u", "a", "r">>, <<"2", "9", ".", " ", "F", "e", "b", "r", "u", "a", "r">>, <<"1", ".", " ", "M", "a_uml", "r", "z">>, <<"2", " ", "M", "a_uml", "r", "z">>, <<"5", " ", "J", "a", "n", "u", "a", "r">>, <<"2", "8", " ", "f", "e", "b">>, <<"3", "1", ".", " ", "d", "e", "z", ".">>}
\* The texts that give a date without its year: D.M, D Monatsname, and words.
YearlessTexts == DmTexts \cup {<<"2", "9", ".", "2", ".">>} \cup LongYearlessTexts \cup WordDateTexts

SmartInputs ==
  {Absent, Str(<<>>)}
  \cup {Str(t) : t \in RelativeTexts \cup DmTexts \cup IsoTexts \cup OtherTexts
                       \cup WeekdayTexts \cup InDaysTexts
                       \cup ImpossibleTexts \cup PossibleTexts \cup UmlautTexts
                       \cup WordDateTexts \cup LongYearlessTexts}

\* Real dates written with their year, dotted, slashed and with the name of
\* the month, each with the date it states.
ExplicitYearDates ==
  {[text |-> <<"2", "2", ".", "1", "0", ".", "2", "0", "2", "5">>, y |-> 2025, m |-> 10, d |-> 22], [text |-> <<"2", "2", "/", "1", "0", "/", "2", "0", "2", "5">>, y |-> 2025, m |-> 10, d |-> 22],
   [text |-> <<"2", "2", ".", " ", "o", "k", "t", "o", "b", "e", "r", " ", "2", "0", "2", "5">>, y |-> 2025, m |-> 10, d |-> 22], [text |-> <<"1", ".", "3", ".", "2", "0", "2", "4">>, y |-> 2024, m |-> 3, d |-> 1],
   [text |-> <<"2", "9", ".", "0", "2", ".", "2", "0", "2", "4">>, y |-> 2024, m |-> 2, d |-> 29], [text |-> <<"3", "1", ".", "1", "2", ".", "2", "0", "2", "5">>, y |-> 2025, m |-> 12, d |-> 31],
   [text |-> <<"1", "/", "1", "/", "2", "0", "2", "6">>, y |-> 2026, m |-> 1, d |-> 1], [text |-> <<"1", ".", " ", "J", "a", "n", "u", "a", "r", " ", "2", "0", "2", "6">>, y |-> 2026, m |-> 1, d |-> 1],
   [text |-> <<"3", ".", " ", "M", "a", "i", " ", "2", "0", "2", "5">>, y |-> 2025, m |-> 5, d |-> 3]}

\* Texts for utils.parseDateAny.
AnyInputs ==
  {Absent, Str(<<>>)} \cup
  {Str(w.text) : w \in ExplicitYearDates} \cup
  {Str(t) : t \in RelativeTexts \cup ImpossibleTexts \cup PossibleTexts \cup UmlautTexts \cup
     { <<"2", "2", ".", "1", "0", ".", "2", "0", "2", "5">>, <<"2", "2", ".", "1", "0", ".">>, <<"5", ".", "1", "0", ".">>, <<"2", "2", ".", "1", "0">>, <<"1", ".", "3", ".", "2", "4">>, <<"2", "2", "/", "1", "0", "/", "2", "0", "2", "5">>, <<"1", "/", "3">>,
       <<"2", "0", "2", "5", "-", "1", "0", "-", "2", "2">>, <<"2", "0", "2", "5", "-", "0", "2", "-", "3", "0">>, <<"2", "0", "2", "5", "-", "1", "3", "-", "4", "5">>,
       <<"2", "2", ".", " ", "o", "k", "t", "o", "b", "e", "r", " ", "2", "0", "2", "5">>, <<"1", ".", " ", "m", "a_uml", "r", "z">>, <<"1", ".", " ", "m", "a", "e", "r", "z", " ", "2", "0", "2", "5">>, <<"3", ".", " ", "m", "a", "i">>,
       <<"f", "o", "o">>, <<" ", "2", "2", ".", "1", "0", ".", "2", "0", "2", "5", " ">> }}

\* Sentences for extractWithRules: a stay, then the adults, then the children.
\* A stay from one dotted date without a year to another.
DottedStay(d1, m1, d2, m2) ==
  <<"v", "o", "m", " ">> \o DmText(d1, m1) \o <<".", " ", "b", "i", "s", " ">> \o DmText(d2, m2) \o <<".">>
StayPairs == {<<22, 10, 24, 10>>, <<24, 10, 22, 10>>, <<5, 10, 7, 10>>, <<30, 12, 2, 1>>}
StayTexts == {DottedStay(p[1], p[2], p[3], p[4]) : p \in StayPairs} \cup
             { <<>>, <<"v", "o", "m", " ", "2", "2", ".", "1", "0", ".", "2", "0", "2", "5", " ", "b", "i", "s", " ", "2", "4", ".", "1", "0", ".", "2", "0", "2", "5">>, <<"2", "2", ".", "1", "0", " ", "b", "i", "s", " ", "2", "4", ".", "1", "0">>,
               <<"a", "m", " ", "1", ".", "3", ".", "2", "4", " ", "b", "i", "s", " ", "3", "/", "3", "/", "2", "0", "2", "4">>, <<"v", "o", "m", " ", "2", "2", ".", "1", "0", ".", "2", "0", "2", "5">> }
AdultText(n, w) == <<" ">> \o NatToText(n) \o w
AdultTexts ==
  {<<>>} \cup {AdultText(n, w) : n \in 0..MaxCount,
                 w \in { <<" ", "E", "r", "w", "a", "c", "h", "s", "e", "n", "e">>, <<" ", "P", "e", "r", "s", "o", "n", "e", "n">>, <<"E", "r", "w", "a", "c", "h", "s", "e", "n", "e", "r">> }}
ChildText(n, w) == <<" ">> \o NatToText(n) \o w
ChildTexts ==
  {<<>>} \cup {ChildText(n, w) : n \in 0..MaxCount, w \in { <<" ", "K", "i", "n", "d">>, <<" ", "K", "i", "n", "d", "e", "r">> }}
\* Stays that mention two dates, in either order and twice the same, and one
\* that mentions three.
Mentions == {<<"2", "2", ".", "1", "0", ".", "2", "0", "2", "5">>, <<"2", "4", ".", "1", "0", ".", "2", "0", "2", "5">>, <<"1", ".", "3", ".", "2", "4">>, <<"3", "/", "3", "/", "2", "0", "2", "4">>, <<"5", ".", "1", "0", ".">>}
MentionStay(a, b) == <<"v", "o", "m", " ">> \o a \o <<" ", "b", "i", "s", " ">> \o b
MentionStays ==
  {MentionStay(a, b) : a, b \in Mentions}
  \cup {<<"2", "4", ".", "1", "0", ".", "2", "0", "2", "5", " ", "o", "d", "e", "r", " ", "2", "2", ".", "1", "0", ".", "2", "0", "2", "5", " ", "b", "i", "s", " ", "2", "3", ".", "1", "0", ".", "2", "0", "2", "5">>}
\* Utterances whose only dates are said with the name of the month, with the
\* dates they mention (year 0: none was said).
MonthNameStays ==
  {[text |-> <<"v", "o", "m", " ", "2", "2", ".", " ", "O", "k", "t", "o", "b", "e", "r", " ", "b", "i", "s", " ", "2", "4", ".", " ", "O", "k", "t", "o", "b", "e", "r">>,
    from |-> [y |-> 0, m |-> 10, d |-> 22], to |-> [y |-> 0, m |-> 10, d |-> 24]],
   [text |-> <<"v", "o", "m", " ", "2", "2", ".", " ", "O", "k", "t", "o", "b", "e", "r", " ", "2", "0", "2", "5", " ", "b", "i", "s", " ", "2", "4", ".", " ", "O", "k", "t", "o", "b", "e", "r", " ", "2", "0", "2", "5">>,
    from |-> [y |-> 2025, m |-> 10, d |-> 22], to |-> [y |-> 2025, m |-> 10, d |-> 24]],
   [text |-> <<"A", "n", "r", "e", "i", "s", "e", " ", "3", ".", " ", "M", "a", "i", " ", "2", "0", "2", "5", ",", " ", "A", "b", "r", "e", "i", "s", "e", " ", "5", ".", " ", "M", "a", "i", " ", "2", "0", "2", "5", ",", " ", "2", " ", "E", "r", "w", "a", "c", "h", "s", "e", "n", "e">>,
    from |-> [y |-> 2025, m |-> 5, d |-> 3], to |-> [y |-> 2025, m |-> 5, d |-> 5]],
   [text |-> <<"3", "0", ".", " ", "D", "e", "z", "e", "m", "b", "e", "r", " ", "2", "0", "2", "5", " ", "b", "i", "s", " ", "2", ".", " ", "J", "a", "n", "u", "a", "r", " ", "2", "0", "2", "6">>,
    from |-> [y |-> 2025, m |-> 12, d |-> 30], to |-> [y |-> 2026, m |-> 1, d |-> 2]]}

ExtractInputs ==
  {Absent} \cup {Str(s \o a \o c) : s \in StayTexts, a \in AdultTexts, c \in ChildTexts}
  \cup {Str(s) : s \in MentionStays}
  \cup {Str(u.text) : u \in MonthNameStays}

\* Bodies for the availability check: the dates are given by their distance
\* from the server's local day.
DayText(k) == ymd(LocalDay(Now) + k)
FromDates == {Absent, Str(DayText(0 - 1)), Str(DayText(0)), Str(DayText(1)),
              Str(<<"f", "o", "o">>), Str(<<"2", "0", "2", "4", "-", "0", "2", "-", "3", "0">>)}
ToDates == {Absent, Str(DayText(0)), Str(DayText(1)), Str(DayText(2)),
            Str(DayText(maxNights + 1)), Str(DayText(maxNights + 2)), Str(<<"f", "o", "o">>)}
RawIns == {Absent, Str(<<"h", "e", "u", "t", "e">>), Str(<<"f", "o", "o">>)}
RawOuts == {Absent, Str(<<"m", "o", "r", "g", "e", "n">>), Str(<<"f", "o", "o">>)}
AdultCounts == {Absent} \cup {Num(n) : n \in (0 - 1)..MaxAdults}
ChildCounts == {Absent} \cup {Num(n) : n \in (0 - 1)..MaxChildren}

\* A body; an absent value is a field the body does not have.
Body(from, to, rawIn, rawOut, adults, children) ==
  With([from_date |-> from, to_date |-> to, checkin_raw |-> rawIn,
        checkout_raw |-> rawOut, adults |-> adults, children |-> children], LAMBDA all :
  With({f \in DOMAIN all : all[f] # Absent}, LAMBDA present :
      [f \in present |-> all[f]]))

\* The stays tried with every count of guests: check-in and check-out as
\* distances from today, or absent.
StayOffsets == {<<0, 2>>, <<1, 3>>, <<0 - 1, 1>>, <<1, maxNights + 2>>, <<2, 1>>,
                <<0 - 1, maxNights + 1>>, <<1, 8>>}
StayDates ==
  {<<Str(DayText(s[1])), Str(DayText(s[2]))>> : s \in StayOffsets}
  \cup {<<Absent, Absent>>, <<Str(DayText(1)), Absent>>}

Bodies ==
  {Body(d[1], d[2], Absent, Absent, a, c) :
     d \in StayDates, a \in AdultCounts, c \in ChildCounts}
  \cup
  {Body(from, to, rawIn, rawOut, g[1], g[2]) :
     from \in FromDates, to \in ToDates, rawIn \in RawIns, rawOut \in RawOuts,
     g \in {<<Absent, Absent>>, <<Num(MaxAdults), Num(0)>>}}

\* The quote requests: stays of up to MaxQuoteNights nights from today or
\* tomorrow, a stay that ends before it begins, dates that are absent or no
\* dates; the board types; the club_care values.
MaxQuoteNights == 3
QuoteStays ==
  {<<Str(DayText(a)), Str(DayText(a + n))>> : a \in 0..1, n \in 0..MaxQuoteNights}
  \cup {<<Str(DayText(2)), Str(DayText(1))>>, <<Absent, Absent>>,
        <<Str(DayText(0)), Absent>>, <<Str(<<"f", "o", "o">>), Str(<<"f", "o", "o">>)>>}
BoardTexts == { <<"V", "o", "l", "l", "p", "e", "n", "s", "i", "o", "n">>, <<"v", "o", "l", "l", "p", "e", "n", "s", "i", "o", "n">>, <<"H", "a", "l", "b", "p", "e", "n", "s", "i", "o", "n">>, <<"F", "r", "u_uml", "h", "s", "t", "u_uml", "c", "k">>, <<"f", "r", "u_uml", "h", "s", "t", "u_uml", "c", "k">>,
                <<"o", "h", "n", "e", " ", "V", "e", "r", "p", "f", "l", "e", "g", "u", "n", "g">>, <<"O", "h", "n", "e", " ", " ", "V", "e", "r", "p", "f", "l", "e", "g", "u", "n", "g">>, <<" ", "V", "o", "l", "l", "p", "e", "n", "s", "i", "o", "n", " ">>, <<"L", "u", "x", "u", "s">>, <<>> }
Boards == {Absent} \cup {Str(t) : t \in BoardTexts}
ClubCares == {Absent, Bool(TRUE), Bool(FALSE), Num(1), Str(<<>>)}
QuoteBody(stay, board, club_care, adults) ==
  With([check_in |-> stay[1], check_out |-> stay[2], board |-> board,
        club_care |-> club_care, adults |-> adults], LAMBDA all :
  With({f \in DOMAIN all : all[f] # Absent}, LAMBDA present :
      [f \in present |-> all[f]]))
QuoteBodies ==
  {QuoteBody(s, b, c, a) : s \in QuoteStays, b \in Boards, c \in ClubCares,
                           a \in {Absent, Num(0)}}

\* The deployments of the HotelRunner integration: every variable set or not.
HotelRunnerEnvironments ==
  [HOTELRUNNER_ENABLED : {<<>>, <<"t", "r", "u", "e">>}, HOTELRUNNER_API_KEY : {<<>>, <<"k", "e", "y">>},
   HOTELRUNNER_PROPERTY_ID : {<<>>, <<"7">>}, HOTELRUNNER_HR_ID : {<<>>, <<"h", "r">>},
   HOTELRUNNER_TOKEN : {<<>>, <<"t", "o", "k">>}, TOOL_SECRET : {<<"g", "e", "h", "e", "i", "m", "1", "2">>}]

\* What the HotelRunner call can meet.
HotelRunnerOutcomes ==
  {[kind |-> "response", reservation_id |-> r] : r \in {Str(<<"H", "R", "-", "7">>), Str(<<>>), Absent}}
  \cup {[kind |-> "null"], [kind |-> "http_error"], [kind |-> "exception"]}

\* Math.random().toString(36).substr(2, 8): empty when Math.random gives 0.
Randoms == {<<>>, <<"k", "3", "x", "9", "q", "2", "a", "b">>}

CommitEmails == {Absent, Str(<<>>), Str(<<"g", "a", "s", "t">>), Str(<<" ", "G", "a", "s", "t", "@", "H", "o", "t", "e", "l", ".", "d", "e", " ">>), Num(5)}
CommitBodies ==
  {[email |-> e, check_in |-> Str(<<"2", "0", "2", "4", "-", "0", "3", "-", "0", "1">>), check_out |-> Str(<<"2", "0", "2", "4", "-", "0", "3", "-", "0", "3">>),
    adults |-> Str(<<"2">>), board |-> Str(<<"V", "o", "l", "l", "p", "e", "n", "s", "i", "o", "n">>), club_care |-> Bool(TRUE)] :
     e \in CommitEmails}

\* The deployments of the tool routes: TOOL_SECRET set or not, the HotelRunner
\* integration whole or off.
ToolEnvironments ==
  {[e EXCEPT !.TOOL_SECRET = s] :
     e \in {Unconfigured,
            [Unconfigured EXCEPT !.HOTELRUNNER_ENABLED = <<"t", "r", "u", "e">>,
                                 !.HOTELRUNNER_API_KEY = <<"k", "e", "y">>,
                                 !.HOTELRUNNER_PROPERTY_ID = <<"7">>]},
     s \in {<<>>, <<"g", "e", "h", "e", "i", "m", "1", "2">>}}

\* The paths of the requests, as they are written, and the headers: none,
\* the secret or another value in tool-secret, in x-tool-secret, or as the
\* Bearer token.
ToolPaths ==
  {<<"/", "r", "e", "t", "e", "l", "l", "/", "t", "o", "o", "l", "/", "c", "h", "e", "c", "k", "_", "a", "v", "a", "i", "l", "a", "b", "i", "l", "i", "t", "y">>, <<"/", "R", "e", "t", "e", "l", "l", "/", "T", "o", "o", "l", "/", "c", "h", "e", "c", "k", "_", "a", "v", "a", "i", "l", "a", "b", "i", "l", "i", "t", "y">>,
   <<"/", "r", "e", "t", "e", "l", "l", "/", "t", "o", "o", "l", "/", "c", "h", "e", "c", "k", "_", "a", "v", "a", "i", "l", "a", "b", "i", "l", "i", "t", "y", "/">>, <<"/", "r", "e", "t", "e", "l", "l", "/", "t", "o", "o", "l", "/", "c", "o", "m", "m", "i", "t", "_", "b", "o", "o", "k", "i", "n", "g">>,
   <<"/", "R", "E", "T", "E", "L", "L", "/", "T", "O", "O", "L", "/", "c", "o", "m", "m", "i", "t", "_", "b", "o", "o", "k", "i", "n", "g">>, <<"/", "r", "e", "t", "e", "l", "l", "/", "p", "u", "b", "l", "i", "c", "/", "c", "h", "e", "c", "k", "_", "a", "v", "a", "i", "l", "a", "b", "i", "l", "i", "t", "y">>,
   <<"/", "r", "e", "t", "e", "l", "l", "/", "p", "u", "b", "l", "i", "c", "/", "q", "u", "o", "t", "e">>, <<"/", "r", "e", "t", "e", "l", "l", "/", "t", "o", "o", "l">>}
RouterPaths == {<<"/", "e", "c", "h", "o">>, <<"/", "E", "c", "h", "o">>, <<"/", "w", "h", "o", "a", "m", "i">>}
SecretTexts == {<<"g", "e", "h", "e", "i", "m", "1", "2">>, <<" ", "g", "e", "h", "e", "i", "m", "1", "2">>, <<"f", "a", "l", "s", "c", "h">>, <<>>}
ToolHeaders ==
  {HeadersOf(Absent, Absent, Absent)}
  \cup {HeadersOf(Absent, Str(s), Absent) : s \in SecretTexts}
  \cup {HeadersOf(Absent, Absent, Str(s)) : s \in SecretTexts}
  \cup {HeadersOf(Str(<<"B", "e", "a", "r", "e", "r", " ">> \o s), Absent, Absent) : s \in SecretTexts}
  \cup {HeadersOf(Str(<<"B", "a", "s", "i", "c", " ", "a", "b", "c">>), Str(<<"g", "e", "h", "e", "i", "m", "1", "2">>), Absent)}

\* The body of the requests: a stay of two nights from tomorrow for a guest.
ToolBody ==
  [email |-> Str(<<"g", "a", "s", "t", "@", "h", "o", "t", "e", "l", ".", "d", "e">>),
   from_date |-> Str(DayText(1)), to_date |-> Str(DayText(3)),
   check_in |-> Str(DayText(1)), check_out |-> Str(DayText(3)),
   adults |-> Num(2), children |-> Num(0)]

-----------------------------------------------------------------------------
(* The state machine: a request is answered in one step; the answer stays   *)
(* in op, req and res until it is sent.                                     *)

\* The server has started in one of the environments.
Start(environments) ==
  /\ today = StartDay
  /\ minute = 0
  /\ tz \in TimeZones
  /\ env \in environments
  /\ op = "idle"
  /\ req = <<>>
  /\ res = <<>>

\* Nothing is configured.
Init == Start({Unconfigured})

\* The HotelRunner integration is configured, in part or whole, or not.
InitHotelRunner == Start(HotelRunnerEnvironments)

\* TOOL_SECRET is set or not.
InitTool == Start(ToolEnvironments)

\* The clock advances by half a day.
Tick ==
  /\ op = "idle"
  /\ today < StartDay + ClockDays
  /\ IF minute + HalfDay < MinutesPerDay
     THEN minute' = minute + HalfDay /\ today' = today
     ELSE minute' = 0 /\ today' = today + 1
  /\ UNCHANGED <<tz, env, op, req, res>>

\* The answer is sent.
Reply ==
  /\ op # "idle"
  /\ op' = "idle" /\ req' = <<>> /\ res' = <<>>
  /\ UNCHANGED <<today, minute, tz, env>>

\* parseDateSmart(raw, type) with the default base date, new Date().
ParseDateSmart ==
  /\ op = "idle"
  /\ \E raw \in SmartInputs :
       /\ req' = [raw |-> raw, baseDate |-> LocalDay(Now)]
       /\ res' = parseDateSmart(raw, "Datum", LocalDay(Now))
  /\ op' = "parseDateSmart"
  /\ UNCHANGED <<today, minute, tz, env>>

\* utils.nextWeekday(from, targetWd), from being a day of the coming week.
NextWeekday ==
  /\ op = "idle"
  /\ \E k \in 0..6, targetWd \in 0..6 :
       /\ req' = [from |-> LocalDay(Now) + k, targetWd |-> targetWd]
       /\ res' = nextWeekday(LocalDay(Now) + k, targetWd)
  /\ op' = "nextWeekday"
  /\ UNCHANGED <<today, minute, tz, env>>

\* normalizeDate(input) of part_005 with the default base date, new Date().
NormalizeDate ==
  /\ op = "idle"
  /\ \E input \in NormalizeInputs :
       /\ req' = [input |-> input, baseDate |-> LocalDay(Now)]
       /\ res' = normalizeDate(input, LocalDay(Now))
  /\ op' = "normalizeDate"
  /\ UNCHANGED <<today, minute, tz, env>>

\* utils.wordToNum(word)
WordToNum ==
  /\ op = "idle"
  /\ \E word \in WordInputs :
       /\ req' = [word |-> word]
       /\ res' = IF word.kind = "string" THEN wordToNum(word.text) ELSE 0
  /\ op' = "wordToNum"
  /\ UNCHANGED <<today, minute, tz, env>>

\* utils.parseDateAny(input)
ParseDateAny ==
  /\ op = "idle"
  /\ \E input \in AnyInputs :
       /\ req' = [input |-> input]
       /\ res' = parseDateAny(input)
  /\ op' = "parseDateAny"
  /\ UNCHANGED <<today, minute, tz, env>>

\* extractWithRules(rawText)
ExtractWithRules ==
  /\ op = "idle"
  /\ \E rawText \in ExtractInputs :
       /\ req' = [rawText |-> rawText]
       /\ res' = extractWithRules(rawText)
  /\ op' = "extractWithRules"
  /\ UNCHANGED <<today, minute, tz, env>>

\* POST /retell/public/check_availability of src/server.js.
CheckAvailability ==
  /\ op = "idle"
  /\ \E body \in Bodies :
       /\ req' = [body |-> body]
       /\ res' = computeCheckAvailability(body)
  /\ op' = "computeCheckAvailability"
  /\ UNCHANGED <<today, minute, tz, env>>

\* POST /retell/tool/check_availability of src/src/server.js.
CheckAvailabilityTool ==
  /\ op = "idle"
  /\ \E body \in Bodies :
       /\ req' = [body |-> body]
       /\ res' = checkAvailabilityTool(body)
  /\ op' = "checkAvailabilityTool"
  /\ UNCHANGED <<today, minute, tz, env>>

\* POST /retell/tool/check_availability of the OTA variant (part_002).
CheckAvailabilityToolOta ==
  /\ op = "idle"
  /\ \E body \in Bodies :
       /\ req' = [body |-> body]
       /\ res' = checkAvailabilityToolOta(body)
  /\ op' = "checkAvailabilityToolOta"
  /\ UNCHANGED <<today, minute, tz, env>>

\* POST /retell/public/quote of src/src/server.js.
Quote ==
  /\ op = "idle"
  /\ \E body \in QuoteBodies :
       /\ req' = [body |-> body]
       /\ res' = quote(body)
  /\ op' = "quote"
  /\ UNCHANGED <<today, minute, tz, env>>

\* POST /retell/public/quote of part_005.
QuoteP5 ==
  /\ op = "idle"
  /\ \E body \in QuoteBodies :
       /\ req' = [body |-> body]
       /\ res' = quoteP5(body)
  /\ op' = "quoteP5"
  /\ UNCHANGED <<today, minute, tz, env>>

\* POST /retell/tool/commit_booking of src/src/server.js.
CommitBooking ==
  /\ op = "idle"
  /\ \E body \in CommitBodies, outcome \in HotelRunnerOutcomes, random \in Randoms :
       /\ req' = [body |-> body, hotelrunner |-> outcome, random |-> random]
       /\ res' = commitBooking(body, outcome, random)
  /\ op' = "commitBooking"
  /\ UNCHANGED <<today, minute, tz, env>>

\* POST /retell/tool/commit_booking of the OTA variant (part_002).
CommitBookingOta ==
  /\ op = "idle"
  /\ \E body \in CommitBodies, outcome \in HotelRunnerOutcomes, random \in Randoms :
       /\ req' = [body |-> body, hotelrunner |-> outcome, random |-> random]
       /\ res' = commitBookingOta(body, outcome, random)
  /\ op' = "commitBookingOta"
  /\ UNCHANGED <<today, minute, tz, env>>

\* A POST request to the server of src/src/server.js.
ToolServerRequest ==
  /\ op = "idle"
  /\ \E path \in ToolPaths, headers \in ToolHeaders,
        outcome \in {[kind |-> "response", reservation_id |-> Str(<<"H", "R", "-", "7">>)],
                     [kind |-> "http_error"]} :
       /\ req' = [path |-> path, headers |-> headers, body |-> ToolBody,
                  hotelrunner |-> outcome, random |-> <<>>]
       /\ res' = appToolServer(path, headers, ToolBody, outcome, <<>>)
  /\ op' = "appToolServer"
  /\ UNCHANGED <<today, minute, tz, env>>

\* A POST request to the server of src/server.js.
ServerRequest ==
  /\ op = "idle"
  /\ \E path \in ToolPaths, headers \in ToolHeaders :
       /\ req' = [path |-> path, headers |-> headers, body |-> ToolBody]
       /\ res' = appServer(path, headers, ToolBody)
  /\ op' = "appServer"
  /\ UNCHANGED <<today, minute, tz, env>>

\* A POST request to the tool router of routes/public.js.
ToolRouterRequest ==
  /\ op = "idle"
  /\ \E path \in RouterPaths, headers \in ToolHeaders :
       /\ req' = [path |-> path, headers |-> headers, body |-> ToolBody]
       /\ res' = appToolRouter(path, headers, ToolBody)
  /\ op' = "appToolRouter"
  /\ UNCHANGED <<today, minute, tz, env>>

\* The date parsers.
NextParse ==
  ParseDateSmart \/ NextWeekday \/ ParseDateAny \/ NormalizeDate \/ WordToNum
  \/ Reply \/ Tick
SpecParse == Init /\ [][NextParse]_vars

\* The slot extraction.
NextExtract == ExtractWithRules \/ Reply \/ Tick
SpecExtract == Init /\ [][NextExtract]_vars

\* The availability checks.
NextAvail ==
  CheckAvailability \/ CheckAvailabilityTool \/ CheckAvailabilityToolOta \/ Reply \/ Tick
SpecAvail == Init /\ [][NextAvail]_vars

\* The quotes.
NextQuote == Quote \/ QuoteP5 \/ Reply \/ Tick
SpecQuote == Init /\ [][NextQuote]_vars

\* The commit of a booking, in every deployment of the integration.
NextCommit == CommitBooking \/ CommitBookingOta \/ Reply \/ Tick
SpecCommit == InitHotelRunner /\ [][NextCommit]_vars

\* The tool routes behind their secret checks.
NextTool == ToolServerRequest \/ ServerRequest \/ ToolRouterRequest \/ Reply \/ Tick
SpecTool == InitTool /\ [][NextTool]_vars

\* The whole backend.
Next ==
  \/ ParseDateSmart \/ NextWeekday \/ ParseDateAny \/ ExtractWithRules
  \/ CheckAvailability \/ CheckAvailabilityTool \/ Quote \/ QuoteP5
  \/ CommitBooking \/ CommitBookingOta
  \/ CheckAvailabilityToolOta
  \/ NormalizeDate \/ WordToNum
  \/ ToolServerRequest \/ ServerRequest \/ ToolRouterRequest
  \/ Reply \/ Tick
Spec == Init /\ [][Next]_vars

-----------------------------------------------------------------------------
(* The properties of the date parsers.                                      *)

\* The number of days of a month, by the Gregorian leap year rule.
DaysInMonth(y, m) ==
  IF m = 2
  THEN IF (y % 4 = 0 /\ y % 100 # 0) \/ y % 400 = 0 THEN 29 ELSE 28
  ELSE IF m \in {4, 6, 9, 11} THEN 30 ELSE 31
IsRealDate(y, m, d) == m \in 1..12 /\ d >= 1 /\ d <= DaysInMonth(y, m)

\* The relative words with the offsets the specification gives them.
RelativeWords == << <<<<"h", "e", "u", "t", "e">>, 0>>, <<<<"m", "o", "r", "g", "e", "n">>, 1>>, <<<<"u_uml", "b", "e", "r", "m", "o", "r", "g", "e", "n">>, 2>>,
                    <<<<"u", "e", "b", "e", "r", "m", "o", "r", "g", "e", "n">>, 2>> >>

\* C1: parsing the single word heute, morgen, u-umlaut-bermorgen or uebermorgen
\* gives the base date plus 0, 1, 2 and 2 days, needs_confirmation false and no
\* notes (parseDateSmart), and the current date plus as many days
\* (parseDateAny, the current date being the one toISOString reports).
C1_RelativeWords ==
  \A w \in DOMAIN RelativeWords :
    /\ (op = "parseDateSmart" /\ req.raw = Str(RelativeWords[w][1]))
         => res = Ok(ymd(req.baseDate + RelativeWords[w][2]), FALSE, <<>>)
    /\ (op = "parseDateAny" /\ req.input = Str(RelativeWords[w][1]))
         => res = ymd(UtcDay(Now) + RelativeWords[w][2])

\* C2: nextWeekday returns a date 1 to 7 days after the base date, on the
\* target weekday, and exactly 7 days later when the base date is on the
\* target weekday already.
C2_NextWeekday ==
  op = "nextWeekday" =>
    /\ res - req.from \in 1..7
    /\ getDay(res) = req.targetWd
    /\ (getDay(req.from) = req.targetWd => res = req.from + 7)

\* A base date on the target weekday has been answered with the date a week later.
C2_Witness ==
  /\ op = "nextWeekday"
  /\ getDay(req.from) = req.targetWd
  /\ res = req.from + 7

\* The day and the month that the text D.M names.
DmOf == [t \in DmTexts |->
           CHOOSE p \in (1..31) \X (1..12) : DmText(p[1], p[2]) = t]

\* C3: for D.M without a year (a date of the base year), parseDateSmart returns
\* D.M of the following year with needs_confirmation true and the note
\* year_rolled_forward if D.M of the base year is before the base date, and
\* D.M of the base year with needs_confirmation false and no notes otherwise.
C3_YearRollOver ==
  (op = "parseDateSmart" /\ req.raw.kind = "string" /\ req.raw.text \in DmTexts) =>
    LET d == DmOf[req.raw.text][1]
        m == DmOf[req.raw.text][2]
        y == CivilFromDays(req.baseDate).y
    IN  IsRealDate(y, m, d) =>
          IF DaysFromCivil(y, m, d) < req.baseDate
          THEN /\ res.ok /\ res.date = YmdText(y + 1, m, d)
               /\ res.needs_confirmation
               /\ \E i \in DOMAIN res.notes : res.notes[i] = "year_rolled_forward"
          ELSE res = Ok(YmdText(y, m, d), FALSE, <<>>)

\* The real calendar dates among the ISO texts, the year within 1900..2100.
RealIsoTexts ==
  {YmdText(p[1], p[2], p[3]) :
     p \in {q \in IsoYears \X (1..12) \X {1, 28, 29, 30, 31} :
              q[1] >= 1900 /\ q[1] <= 2100 /\ q[3] <= DaysInMonth(q[1], q[2])}}

\* C4: a real calendar date with a year in 1900..2100, written YYYY-MM-DD, is
\* returned as the identical string with needs_confirmation false and no notes,
\* and parsing the returned string gives the same result again.
C4_IsoIdentity ==
  (op = "parseDateSmart" /\ req.raw.kind = "string" /\ req.raw.text \in RealIsoTexts) =>
    /\ res = Ok(req.raw.text, FALSE, <<>>)
    /\ parseDateSmart(Str(res.date), "Datum", req.baseDate) = res

\* The leap day 2024-02-29 has been parsed and returned unchanged.
C4_Witness ==
  /\ op = "parseDateSmart"
  /\ req.raw = Str(<<"2", "0", "2", "4", "-", "0", "2", "-", "2", "9">>)
  /\ res.ok /\ res.date = <<"2", "0", "2", "4", "-", "0", "2", "-", "2", "9">>

-----------------------------------------------------------------------------
(* The properties of the slot extraction.                                   *)

\* The earlier and the later of two dates of the current year, as YYYY-MM-DD.
EarlierOf(y, p) ==
  IF DaysFromCivil(y, p[2], p[1]) <= DaysFromCivil(y, p[4], p[3])
  THEN YmdText(y, p[2], p[1]) ELSE YmdText(y, p[4], p[3])
LaterOf(y, p) ==
  IF DaysFromCivil(y, p[2], p[1]) <= DaysFromCivil(y, p[4], p[3])
  THEN YmdText(y, p[4], p[3]) ELSE YmdText(y, p[2], p[1])

\* C5: for "vom D1.M1. bis D2.M2." followed by "<N> Erwachsene" and "<K> Kind",
\* extractWithRules returns the earlier of the two dates of the current year as
\* check_in, the later as check_out, and the counts N and K.
C5_TwoDottedDates ==
  op = "extractWithRules" =>
    \A p \in StayPairs, n \in 1..MaxCount, k \in 0..MaxCount :
      req.rawText = Str(DottedStay(p[1], p[2], p[3], p[4])
                        \o AdultText(n, <<" ", "E", "r", "w", "a", "c", "h", "s", "e", "n", "e">>) \o ChildText(k, <<" ", "K", "i", "n", "d">>))
      => LET y == CivilFromDays(LocalDay(Now)).y
         IN  res = [check_in |-> EarlierOf(y, p), check_out |-> LaterOf(y, p),
                    adults |-> n, children |-> k]

\* The sentences that state no count of adults, and no count of children.
NoAdultCount == {Absent} \cup {Str(s \o c) : s \in StayTexts, c \in ChildTexts}
NoChildCount == {Absent} \cup {Str(s \o a) : s \in StayTexts, a \in AdultTexts}

\* C6: the slots of extractWithRules have adults >= 1 and children >= 0, and
\* adults = 1, children = 0 where the text states no count.
C6_CountDefaults ==
  op = "extractWithRules" =>
    /\ res.adults >= 1
    /\ res.children >= 0
    /\ (req.rawText \in NoAdultCount => res.adults = 1)
    /\ (req.rawText \in NoChildCount => res.children = 0)

-----------------------------------------------------------------------------
(* The properties of the availability checks.                               *)

AvailabilityOps == {"computeCheckAvailability", "checkAvailabilityTool"}

\* A text that is a real calendar date written YYYY-MM-DD, and its day number.
IsRealIsoText(t) == IsoDateShape(t) /\ IsRealDate(IsoYear(t), IsoMonth(t), IsoDay(t))
DayOf(t) == DaysFromCivil(IsoYear(t), IsoMonth(t), IsoDay(t))

\* A plain body: no raw texts, the dates absent or real dates, at least one
\* adult and no negative number of children.
PlainBody(body) ==
  /\ "checkin_raw" \notin DOMAIN body /\ "checkout_raw" \notin DOMAIN body
  /\ \A f \in {"from_date", "to_date"} \cap DOMAIN body : IsRealIsoText(body[f].text)
  /\ "adults" \in DOMAIN body /\ body.adults.n >= 1
  /\ "children" \in DOMAIN body => body.children.n >= 0

GuestsOf(body) ==
  body.adults.n + (IF "children" \in DOMAIN body THEN body.children.n ELSE 0)
HasDates(body) == "from_date" \in DOMAIN body /\ "to_date" \in DOMAIN body
NightsOf(body) == DayOf(body.to_date.text) - DayOf(body.from_date.text)

\* The rules a plain body violates.
NoDates(body) == ~HasDates(body)
BadRange(body) == HasDates(body) /\ NightsOf(body) <= 0
TooLong(body) == HasDates(body) /\ NightsOf(body) > maxNights
InPast(body) == HasDates(body) /\ DayOf(body.from_date.text) < LocalDay(Now)
TooMany(body) == GuestsOf(body) > maxGuests
Violations(body) ==
  {r \in {"dates", "range", "max_nights", "past", "guests"} :
     \/ r = "dates" /\ NoDates(body)
     \/ r = "range" /\ BadRange(body)
     \/ r = "max_nights" /\ TooLong(body)
     \/ r = "past" /\ InPast(body)
     \/ r = "guests" /\ TooMany(body)}

\* The rule that an answer reports as violated ("none": the request passed
\* the five rules).
Reported ==
  IF op = "computeCheckAvailability"
  THEN IF res.outcome = "ok" THEN "none"
       ELSE IF res.field \in {"adults", "children", "total_guests"} THEN "guests"
       ELSE IF res.name = "ValidationError" THEN "dates"
       ELSE IF res.code = "INVALID_DATE_RANGE" THEN "range"
       ELSE IF res.code = "MAX_NIGHTS_EXCEEDED" THEN "max_nights"
       ELSE IF res.code = "CHECKIN_IN_PAST" THEN "past"
       ELSE "none"
  ELSE IF res.code = "MISSING_DATES" THEN "dates"
       ELSE IF res.availability_ok THEN "none"
       ELSE IF res.spoken.text = "Das Abreisedatum muss nach dem Anreisedatum liegen."
       THEN "range"
       ELSE IF res.spoken.text = "Das Anreisedatum darf nicht in der Vergangenheit liegen."
       THEN "past"
       ELSE IF res.spoken.args = <<res.details.total_guests, maxGuests>> THEN "guests"
       ELSE "other"

\* The first of a sequence of rules that is among the violated ones.
FirstOf(order, violated) ==
  IF \E i \in DOMAIN order : order[i] \in violated
  THEN order[Min({i \in DOMAIN order : order[i] \in violated})]
  ELSE "none"

InPastForTool(body) ==
  HasDates(body) /\
    DayOf(body.from_date.text) * MinutesPerDay < LocalDay(Now) * MinutesPerDay - tz

Unusable(body, field, rawField, words) ==
  IF field \in DOMAIN body THEN ~IsRealIsoText(body[field].text)
  ELSE IF rawField \in DOMAIN body THEN body[rawField].text \notin words
  ELSE TRUE

\* C8: a request whose check-in or check-out is absent or no calendar date
\* never yields a success result.
C8_NoSuccessWithoutDates ==
  (op \in AvailabilityOps /\
     (\/ Unusable(req.body, "from_date", "checkin_raw", {<<"h", "e", "u", "t", "e">>})
      \/ Unusable(req.body, "to_date", "checkout_raw", {<<"m", "o", "r", "g", "e", "n">>}))) =>
    IF op = "computeCheckAvailability" THEN res.outcome = "error"
    ELSE ~res.ok /\ res.code = "MISSING_DATES"

\* A plain body with both dates, check-out after check-in, nights within the
\* maximum and a valid count of guests.
ValidButForPast(body) ==
  /\ PlainBody(body) /\ HasDates(body)
  /\ NightsOf(body) > 0 /\ NightsOf(body) <= maxNights
  /\ GuestsOf(body) <= maxGuests

\* C9: such a request fails as CHECKIN_IN_PAST if its check-in is before today,
\* and is not rejected by that rule if its check-in is today or later.
C9_PastRule ==
  (op \in AvailabilityOps /\ ValidButForPast(req.body)) =>
    (Reported = "past") = (DayOf(req.body.from_date.text) < LocalDay(Now))

\* A plain body with a check-in after today and a stay within the maximum.
FutureStay(body) ==
  /\ PlainBody(body) /\ HasDates(body)
  /\ DayOf(body.from_date.text) > LocalDay(Now)
  /\ NightsOf(body) > 0 /\ NightsOf(body) <= maxNights

\* The answer carries the message of the guest limit, naming the limit.
NamesGuestLimit ==
  IF op = "computeCheckAvailability"
  THEN /\ res.outcome = "error" /\ res.field = "total_guests"
       /\ res.message.args = <<maxGuests>>
  ELSE /\ ~res.availability_ok
       /\ res.spoken.args = <<GuestsOf(req.body), maxGuests>>

\* The answer reports the stay as available.
ReportedAvailable ==
  IF op = "computeCheckAvailability" THEN res.outcome = "ok"
  ELSE res.ok /\ res.availability_ok

\* C10 as stated: max_guests guests are reported as available, max_guests + 1
\* guests fail with the message that names the guest limit.
C10_StatedBoundary ==
  (op \in AvailabilityOps /\ FutureStay(req.body)) =>
    /\ GuestsOf(req.body) = maxGuests => ReportedAvailable
    /\ GuestsOf(req.body) = maxGuests + 1 => NamesGuestLimit

\* C10, amended: max_guests guests pass the guest limit; the tool handler
\* reports them as available, computeCheckAvailability answers
\* NO_ROOMS_AVAILABLE, no room of its catalogue taking that many; max_guests + 1
\* guests fail with the message that names the guest limit.
C10_GuestLimit ==
  (op \in AvailabilityOps /\ FutureStay(req.body)) =>
    /\ GuestsOf(req.body) = maxGuests =>
         IF op = "computeCheckAvailability"
         THEN res.outcome = "error" /\ res.code = "NO_ROOMS_AVAILABLE"
         ELSE ReportedAvailable
    /\ GuestsOf(req.body) = maxGuests + 1 => NamesGuestLimit

\* computeCheckAvailability has answered a future stay of max_guests guests.
C10_Witness ==
  /\ op = "computeCheckAvailability"
  /\ FutureStay(req.body)
  /\ GuestsOf(req.body) = maxGuests
  /\ res.outcome = "error" /\ res.code = "NO_ROOMS_AVAILABLE"

-----------------------------------------------------------------------------
(* The properties of the quote.                                             *)

\* The nights, the totals and the breakdown of a successful quote, as whole
\* numbers: part_005 answers in JavaScript numbers, which may be NaN.
QuoteOps == {"quote", "quoteP5"}
QuoteNights == IF op = "quote" THEN res.data.nights ELSE res.data.nights.n
QuoteEur == IF op = "quote" THEN res.data.total_eur ELSE res.data.total_eur.n
QuoteTry == IF op = "quote" THEN res.data.total_try ELSE res.data.total_try.n
\* The request was answered with a quote for a number of nights above 0.
Quoted ==
  /\ op \in QuoteOps /\ res.ok
  /\ op = "quoteP5" => res.data.nights.finite
  /\ QuoteNights > 0
ClubCareAsked ==
  /\ "club_care" \in DOMAIN req.body
  /\ req.body.club_care \in {Bool(TRUE), Num(1)}

\* C11: for a quote over nights > 0, total_eur is nights x (basePerNight +
\* boardAdd) + clubCareAdd with the amounts of the breakdown, basePerNight is
\* 90, clubCareAdd is 220 with club_care and 0 without, total_try is
\* total_eur x 48, the nights are the days from check-in to check-out, and
\* Vollpension over 2 nights without the add-on costs 236.
C11_QuoteTotal ==
  Quoted =>
    /\ QuoteNights = DayOf(req.body.check_out.text) - DayOf(req.body.check_in.text)
    /\ res.data.breakdown.basePerNight = 90
    /\ res.data.breakdown.clubCareAdd = IF ClubCareAsked THEN 220 ELSE 0
    /\ QuoteEur = QuoteNights * (res.data.breakdown.basePerNight + res.data.breakdown.boardAdd)
                    + res.data.breakdown.clubCareAdd
    /\ QuoteTry = QuoteEur * 48
    /\ (/\ "board" \in DOMAIN req.body /\ req.body.board = Str(<<"V", "o", "l", "l", "p", "e", "n", "s", "i", "o", "n">>)
        /\ QuoteNights = 2 /\ ~ClubCareAsked) => QuoteEur = 236

\* Vollpension over 2 nights with the add-on has been quoted at 456.
C11_Witness ==
  /\ op = "quote" /\ res.ok
  /\ "board" \in DOMAIN req.body /\ req.body.board = Str(<<"V", "o", "l", "l", "p", "e", "n", "s", "i", "o", "n">>)
  /\ res.data.nights = 2 /\ ClubCareAsked
  /\ res.data.total_eur = 456

\* The key under which a quote looks the board type up: utils.normalize of it
\* in src/src/server.js, its lower case in part_005.
BoardKeyOf(body) ==
  IF op = "quote" THEN normalizeValue(FieldOr(body, "board", Str(<<"f", "r", "u_uml", "h", "s", "t", "u_uml", "c", "k">>)))
  ELSE toLowerCase(StringOf(FieldOr(body, "board", Str(<<"f", "r", "u_uml", "h", "s", "t", "u_uml", "c", "k">>))))

\* C12: the board surcharge of a quote is the value of the board-rate table
\* whenever the normalized board type is a key of the table (0 for ohne
\* Verpflegung, 18 for Halbpension, 28 for Vollpension), and 8 only when it is
\* not.
C12_BoardSurcharge ==
  Quoted =>
    /\ \A i \in DOMAIN boardRates :
         BoardKeyOf(req.body) = boardRates[i][1] => res.data.breakdown.boardAdd = boardRates[i][2]
    /\ (\A i \in DOMAIN boardRates : BoardKeyOf(req.body) # boardRates[i][1])
         => res.data.breakdown.boardAdd = 8
    /\ BoardKeyOf(req.body) = <<"o", "h", "n", "e", " ", "v", "e", "r", "p", "f", "l", "e", "g", "u", "n", "g">> => res.data.breakdown.boardAdd = 0
    /\ BoardKeyOf(req.body) = <<"h", "a", "l", "b", "p", "e", "n", "s", "i", "o", "n">> => res.data.breakdown.boardAdd = 18
    /\ BoardKeyOf(req.body) = <<"v", "o", "l", "l", "p", "e", "n", "s", "i", "o", "n">> => res.data.breakdown.boardAdd = 28

\* The two commit handlers, and whether the integration is switched on and
\* configured for the one that answered.
CommitOps == {"commitBooking", "commitBookingOta"}
IntegrationOn ==
  IF op = "commitBooking"
  THEN hotelrunnerEnabled /\ hotelrunnerApiKey # <<>> /\ hotelrunnerPropertyId # 0
  ELSE hotelrunnerEnabled /\ hotelrunnerHrId # <<>> /\ hotelrunnerToken # <<>>
\* The call was made, succeeded and returned a reservation id.
ReservationReturned ==
  /\ IntegrationOn
  /\ req.hotelrunner.kind = "response"
  /\ Truthy(req.hotelrunner.reservation_id)
EmailAccepted ==
  /\ op \in CommitOps
  /\ req.body.email.kind = "string"
  /\ Includes(req.body.email.text, <<"@">>)
IsLocalId(v) == v.kind = "string" /\ Len(v.text) > 3 /\ SubSeq(v.text, 1, 3) = <<"b", "k", "_">>

ToolApps == {"appToolServer", "appServer", "appToolRouter"}
\* The request carries the configured TOOL_SECRET, which is not empty, in one
\* of the headers, as it is or as a Bearer token.
CarriesSecret ==
  /\ env.TOOL_SECRET # <<>>
  /\ \E h \in DOMAIN req.headers :
       /\ req.headers[h].kind = "string"
       /\ \/ trim(req.headers[h].text) = env.TOOL_SECRET
          \/ /\ startsWith(req.headers[h].text, <<"B", "e", "a", "r", "e", "r", " ">>)
             /\ trim(SubSeq(req.headers[h].text, 8, Len(req.headers[h].text)))
                  = env.TOOL_SECRET
\* The handler of a route under /retell/tool ran (every route of the tool
\* router is one).
ToolHandlerRan ==
  /\ res.by = "handler"
  /\ op = "appToolRouter"
     \/ res.route \in {"/retell/tool/check_availability", "/retell/tool/commit_booking"}

\* C14: the handler of a route under /retell/tool runs only if the request
\* carried the configured TOOL_SECRET, which is not empty.
C14_SecretGuardsTools ==
  (op \in ToolApps /\ ToolHandlerRan) => CarriesSecret

\* The availability handlers with a spoken sentence, the nights of a
\* successful result (a number) and the night count as its sentence renders it.
SpokenOps == {"computeCheckAvailability", "checkAvailabilityTool", "checkAvailabilityToolOta"}
SpokenAvailable ==
  /\ op \in SpokenOps
  /\ IF op = "computeCheckAvailability" THEN res.outcome = "ok" /\ res.nights.finite
     ELSE res.ok /\ res.availability_ok
SpokenNights == IF op = "computeCheckAvailability" THEN res.nights.n ELSE res.nights
RenderedNights == res.spoken.args[1]

\* C15: the spoken sentence of a successful availability result says
\* "1 Nacht" for one night and "N N{a_uml}chte" for two nights or more.
C15_NightsPlural ==
  (SpokenAvailable /\ SpokenNights >= 1) =>
    RenderedNights = IntToText(SpokenNights)
                       \o (IF SpokenNights = 1 THEN <<" ", "N", "a", "c", "h", "t">> ELSE <<" ", "N", "a_uml", "c", "h", "t", "e">>)

\* A weekday was asked for in one of the four ways, and which one (0 is
\* Sunday); the next day after base that falls on weekday wd.
WeekdayAsked ==
  /\ op = "parseDateSmart"
  /\ req.raw.kind = "string"
  /\ \E lead \in WeekdayLeads, i \in DOMAIN WeekdayWords :
       req.raw.text = lead \o WeekdayWords[i]
AskedWeekday ==
  (CHOOSE i \in DOMAIN WeekdayWords :
     \E lead \in WeekdayLeads : req.raw.text = lead \o WeekdayWords[i]) - 1
NextOccurrence(base, wd) == CHOOSE d \in (base + 1)..(base + 7) : getDay(d) = wd

\* C16: "n{a_uml}chsten W", "kommenden W", "am W" and "W" alone give, for every
\* weekday W, the next W strictly after the base date, to be confirmed, with
\* the note weekday_inferred.
C16_WeekdayPhrases ==
  WeekdayAsked =>
    res = Ok(ymd(NextOccurrence(req.baseDate, AskedWeekday)), TRUE, <<"weekday_inferred">>)

\* The parsers with an "in N Tagen" rule, the text they were given, and N
\* when the text is "in N Tagen".
InDaysOps == {"parseDateSmart", "normalizeDate"}
AskedInput == IF op = "parseDateSmart" THEN req.raw ELSE req.input
InDaysAsked ==
  /\ op \in InDaysOps
  /\ \E n \in InDaysCounts : AskedInput = Str(InDaysText(n))
AskedDays == CHOOSE n \in InDaysCounts : AskedInput = Str(InDaysText(n))
\* The parser gave the day: parseDateSmart a result, normalizeDate a text.
GaveDay(day, nc, notes) ==
  IF op = "parseDateSmart" THEN res = Ok(ymd(day), nc, notes) ELSE res = ymd(day)
GaveNothing == IF op = "parseDateSmart" THEN ~res.ok ELSE res = NoDate

\* C17: "in N Tagen" gives the base date plus N days, not to be confirmed, for
\* every N of 1..364, and nothing for N = 0 and N >= 365.
C17_InDays ==
  InDaysAsked =>
    IF AskedDays \in 1..364
    THEN GaveDay(req.baseDate + AskedDays, FALSE, <<>>)
    ELSE GaveNothing

\* The dates that parseDateAny reads from the candidates of the utterance,
\* and the day that a date text YYYY-MM-DD names.
MentionedDates ==
  {parseDateAny(Str(c)) :
     c \in Range(DateCandidates(req.rawText.text, 1, "."))
           \cup Range(DateCandidates(req.rawText.text, 1, "/"))} \ {NoDate}
DayOfText(t) == DaysFromCivil(IsoYear(t), IsoMonth(t), IsoDay(t))
EarliestOf(S) == CHOOSE d \in S : \A e \in S : DayOfText(d) <= DayOfText(e)
Extracted ==
  /\ op = "extractWithRules"
  /\ req.rawText.kind = "string" /\ req.rawText.text # <<>>

\* C18: check_in is the earliest and check_out the second earliest of the
\* distinct dates read from the utterance; check_out is null with one date
\* only; a check_out comes with an earlier check_in; and mentioning the two
\* dates in the other order gives the same result.
C18_SmallestTwo ==
  Extracted =>
    /\ res.check_in = (IF MentionedDates = {} THEN NoDate ELSE EarliestOf(MentionedDates))
    /\ res.check_out = (IF Cardinality(MentionedDates) < 2 THEN NoDate
                        ELSE EarliestOf(MentionedDates \ {EarliestOf(MentionedDates)}))
    /\ res.check_out # NoDate =>
         /\ res.check_in # NoDate
         /\ DayOfText(res.check_in) < DayOfText(res.check_out)
    /\ \A a, b \in Mentions :
         req.rawText.text = MentionStay(a, b) =>
           /\ res.check_in = extractWithRules(Str(MentionStay(b, a))).check_in
           /\ res.check_out = extractWithRules(Str(MentionStay(b, a))).check_out

\* Two dates, the later one mentioned first.
C18_Witness ==
  /\ Extracted
  /\ req.rawText.text = MentionStay(<<"2", "4", ".", "1", "0", ".", "2", "0", "2", "5">>, <<"3", "/", "3", "/", "2", "0", "2", "4">>)
  /\ Cardinality(MentionedDates) = 2
  /\ res.check_out # NoDate

\* The text was spelled with an umlaut, and its spelling with ae, oe, ue.
UmlautOps == {"parseDateSmart", "parseDateAny"}
UmlautAsked ==
  /\ op \in UmlautOps
  /\ \E p \in UmlautPairs : AskedInput = Str(p[1])
Expanded == (CHOOSE p \in UmlautPairs : AskedInput = Str(p[1]))[2]

\* C19: a month name or relative word spelled with its umlaut gives, in
\* parseDateSmart and in parseDateAny, the result of the spelling with ae,
\* oe or ue.
C19_UmlautSpellings ==
  UmlautAsked =>
    res = (IF op = "parseDateSmart"
           THEN parseDateSmart(Str(Expanded), "Datum", req.baseDate)
           ELSE parseDateAny(Str(Expanded)))

\* The three date parsers, and an input that states a date no calendar has.
DateParsers == {"parseDateSmart", "parseDateAny", "normalizeDate"}
ImpossibleAsked ==
  /\ op \in DateParsers
  /\ \E t \in ImpossibleTexts : AskedInput = Str(t)

\* C20: no parser gives a date for an ISO-shaped or dotted input whose month
\* is above 12 or whose day its month does not have: parseDateSmart fails,
\* parseDateAny and normalizeDate give null.
C20_ImpossibleDates ==
  ImpossibleAsked => GaveNothing

-----------------------------------------------------------------------------
(* parseDateSmart: which rule answered, and what it says about its guess.   *)

\* A request that parseDateSmart takes to its rules, the normalized text the
\* rules see, and the number of the rule that answered (0: none).
SmartAsked == op = "parseDateSmart" /\ isValidString1(req.raw)
SmartText == normalizeText(req.raw.text)
RulesOf(s, baseDate) ==
  <<RuleRelative(s, baseDate), RuleInDays(s, baseDate), RuleWeekday(s, baseDate), RuleIso(s),
    RuleEuropean(s, baseDate), RuleLong(s, baseDate), RuleWords(s, baseDate), RuleFallback(s)>>
AnsweringRule ==
  LET r == RulesOf(SmartText, req.baseDate)
      hits == {i \in DOMAIN r : r[i].hit}
  IN  IF hits = {} THEN 0 ELSE Min(hits)
HasNote(tag) == \E i \in DOMAIN res.notes : res.notes[i] = tag
ViaFallback == SmartAsked /\ AnsweringRule = 8

WordDateAsked == op = "parseDateSmart" /\ \E w \in WordDates : req.raw = Str(w.text)
AskedWordDate == CHOOSE w \in WordDates : req.raw = Str(w.text)
\* The date of the base year is not before the base date.
NotBeforeBase(w) ==
  ~TextLess(YmdText(CivilFromDays(req.baseDate).y, w.m, w.d), ymd(req.baseDate))

\* C22: a date in words that parseDateSmart accepts needs confirmation and
\* carries the one note 'ordinal_or_word_format' if its month was said as a
\* number word, on every base date; if its month was said by name and the date
\* is not before the base date, it needs no confirmation and has no notes.
C22_WordDateConfirmation ==
  (WordDateAsked /\ res.ok) =>
     /\ ~AskedWordDate.named =>
          res.needs_confirmation /\ res.notes = <<"ordinal_or_word_format">>
     /\ (AskedWordDate.named /\ NotBeforeBase(AskedWordDate)) =>
          ~res.needs_confirmation /\ res.notes = <<>>

C22_Witness ==
  /\ WordDateAsked /\ res.ok /\ ~AskedWordDate.named
  /\ NotBeforeBase(AskedWordDate)
  /\ res.date = YmdText(CivilFromDays(req.baseDate).y, AskedWordDate.m, AskedWordDate.d)

\* A number word of a day was asked for, and the day it names.
NumberWordAsked == op = "wordToNum" /\ \E f \in NumberWordForms : req.word = Str(f[1])
AskedNumber == (CHOOSE f \in NumberWordForms : req.word = Str(f[1]))[2]

\* C23: wordToNum maps the cardinal word of every day 1..31, and each of its
\* ordinal forms, to that day.
C23_NumberWords ==
  NumberWordAsked => res = AskedNumber

\* An utterance with month names was asked about; a date text names the date
\* that was said.
MonthNameAsked ==
  op = "extractWithRules" /\ \E u \in MonthNameStays : req.rawText = Str(u.text)
AskedMonthNameStay == CHOOSE u \in MonthNameStays : req.rawText = Str(u.text)
NamesDate(t, said) ==
  /\ t # NoDate
  /\ IsoMonth(t) = said.m /\ IsoDay(t) = said.d
  /\ said.y # 0 => IsoYear(t) = said.y

\* C24: an utterance whose only dates have the form 'D. Monatsname' or
\* 'D. Monatsname YYYY' yields a check_in and a check_out, which are the
\* dates that were said.
C24_MonthNameDates ==
  MonthNameAsked =>
    /\ NamesDate(res.check_in, AskedMonthNameStay.from)
    /\ NamesDate(res.check_out, AskedMonthNameStay.to)

\* The rooms of the catalogue that take a number of guests, in catalogue order.
QualifyingRooms(guests) == SelectSeq(ROOMS_DEMO, LAMBDA r : r.maxGuests >= guests)
ComputeSucceeded == op = "computeCheckAvailability" /\ res.outcome = "ok"
\* A plain body that passes every rule on dates and guests.
PassesTheRules(body) ==
  /\ ValidButForPast(body)
  /\ DayOf(body.from_date.text) >= LocalDay(Now)

C26_DatesWithinBounds ==
  (op = "parseDateSmart" /\ res.ok) =>
    /\ IsoDateShape(res.date)
    /\ IsRealDate(IsoYear(res.date), IsoMonth(res.date), IsoDay(res.date))
    /\ IsoYear(res.date) >= minYear /\ IsoYear(res.date) <= maxYear

\* A text without a year was asked about.
YearlessAsked == op = "parseDateSmart" /\ \E t \in YearlessTexts : req.raw = Str(t)

\* C27: for an input without a year, parseDateSmart never returns ok with a
\* date earlier than the base date.
C27_NeverBeforeBase ==
  (YearlessAsked /\ res.ok) => ~TextLess(res.date, ymd(req.baseDate))

\* The European, the long and the word rule answered a text without a year
\* with a date of a later year than the base date's.
YearAdvanced ==
  /\ YearlessAsked /\ AnsweringRule \in {5, 6, 7} /\ res.ok
  /\ IsoYear(res.date) > CivilFromDays(req.baseDate).y

\* C28: a date whose year was advanced beyond the base year, the input giving
\* no year, carries the note 'year_rolled_forward', whichever rule rolled it.
C28_RollIsNoted ==
  YearAdvanced => HasNote("year_rolled_forward")

\* C29: the source of a committed booking is 'hotelrunner' only if the
\* booking_id is the reservation id that HotelRunner returned; with the local
\* id (the call failed, was skipped or returned no id) the source is 'mock'.
C29_SourceOfTheId ==
  (EmailAccepted /\ res.ok) =>
    /\ res.data.source = "hotelrunner" =>
         ReservationReturned /\ res.data.booking_id = req.hotelrunner.reservation_id
    /\ (~ReservationReturned /\ IsLocalId(res.data.booking_id)) => res.data.source = "mock"

\* A real date with its year was given to parseDateAny.
ExplicitYearAsked ==
  op = "parseDateAny" /\ \E w \in ExplicitYearDates : req.input = Str(w.text)
AskedExplicitDate == CHOOSE w \in ExplicitYearDates : req.input = Str(w.text)

\* C30: in every time zone of the server, parseDateAny returns for a valid
\* date written D.M.YYYY, D/M/YYYY or D. Monatsname YYYY the text YYYY-MM-DD
\* of the same day, month and year.
C30_SameDateInEveryZone ==
  ExplicitYearAsked =>
    res = YmdText(AskedExplicitDate.y, AskedExplicitDate.m, AskedExplicitDate.d)

====
